---------------------------- MODULE Spec2Model ----------------------------
(***************************************************************************)
(* Model of the feedback backend's AI-enrichment pipeline and of the rate  *)
(* limiter in front of it:                                                 *)
(*   - LLMService._call_llm and its retry policy            (SpecLLM),     *)
(*   - review intake and the enrichment of submitted reviews (Spec),       *)
(*   - concurrent enrich_feedback invocations on one review  (SpecEnrich), *)
(*   - the sentiment normaliser under enrich_feedback     (SpecSentiment), *)
(*   - the batch pass enrich_unprocessed                     (SpecBatch),  *)
(*   - the endpoints that queue the batch pass              (SpecTrigger), *)
(*   - InsightService.generate_insights                   (SpecAggregate), *)
(*   - GET /admin/insights and the cached insight record      (SpecCache), *)
(*   - submitted reviews under a fair background worker        (SpecLive), *)
(*   - the tenant-scoped admin operations of two tenants     (SpecTenant), *)
(*   - intake, enrichment, batch and insights together     (SpecPipeline), *)
(*   - enrich_feedback attempt by attempt, with fairness   (SpecAttempts), *)
(*   - the category normaliser under enrich_feedback       (SpecCategory), *)
(*   - the ratings the three intake paths store              (SpecRating), *)
(*   - RateLimitMiddleware.dispatch                         (SpecLimiter). *)
(* Texts are sequences of one-character strings, so that strip(),          *)
(* rstrip("."), capitalize() and slicing are computed, not assumed.        *)
(* A nullable field is a sequence of length <= 1: None or Some(v).         *)
(***************************************************************************)
EXTENDS Integers, Sequences, FiniteSets, Bags, TLC

VARIABLES
    call,        \* the one _call_llm invocation followed by SpecLLM
    feedbacks,   \* db.feedbacks: sequence of documents, _id = index
    now,         \* logical clock behind datetime.utcnow() and datetime.now()
    scheduled,   \* BackgroundTasks: the bag of tasks added and not yet started
    inv,         \* enrich_feedback invocations, one per task slot
    response,    \* the last HTTP response produced by an endpoint or the limiter
    batch,       \* the enrich_unprocessed invocation in progress, if any
    insights,    \* db.insights: sequence of documents, _id = index
    gen,         \* the admin's requests, one per request slot
    limiter      \* RateLimitMiddleware: request_counts and what it admitted

vars ==
    <<call, feedbacks, now, scheduled, inv, response, batch, insights, gen,
      limiter>>

pipelineVars ==
    <<feedbacks, now, scheduled, inv, response, batch, insights, gen, limiter>>

-----------------------------------------------------------------------------
(* Optional values and texts *)

None == <<>>

Some(v) == <<v>>

Whitespace == {" ", "\t", "\n"}

RECURSIVE LStripChars(_, _)
LStripChars(s, chars) ==
    IF s # <<>> /\ Head(s) \in chars THEN LStripChars(Tail(s), chars) ELSE s

RECURSIVE RStripChars(_, _)
RStripChars(s, chars) ==
    IF s # <<>> /\ s[Len(s)] \in chars
    THEN RStripChars(SubSeq(s, 1, Len(s) - 1), chars)
    ELSE s

\* str.strip(chars)
StripChars(s, chars) == RStripChars(LStripChars(s, chars), chars)

\* str.strip()
Strip(s) == StripChars(s, Whitespace)

-----------------------------------------------------------------------------
(* LLMService._call_llm: one provider call under tenacity's @retry *)

MaxAttempts == 3

WaitMultiplier == 1

WaitMin == 2

WaitMax == 10

Max2(a, b) == IF a >= b THEN a ELSE b

Min2(a, b) == IF a <= b THEN a ELSE b

RECURSIVE Pow2(_)
Pow2(n) == IF n <= 0 THEN 1 ELSE 2 * Pow2(n - 1)

\* mutant of StopAfterAttempt: off by one, a 4th attempt is allowed
StopAfterAttemptOffByOne(attempt_number) == attempt_number > MaxAttempts

\* stop=stop_after_attempt(3)
StopAfterAttempt(attempt_number) == attempt_number >= MaxAttempts

\* wait=wait_exponential(multiplier=1, min=2, max=10): the sleep that follows
\* failed attempt number attempt_number
WaitExponential(attempt_number) ==
    Max2(Max2(0, WaitMin),
         Min2(WaitMultiplier * Pow2(attempt_number - 1), WaitMax))

\* What the completion provider can do with one request: raise one of these
\* errors, answer with no content, or answer with one of these contents.
ProviderErrors == {"timeout", "rate_limit", "bad_gateway"}

ProviderContents ==
    { <<"o", "k">>, <<" ", "o", "k", "\n">>, <<>> }

\* LLMServiceError(f"Failed to generate response: {str(e)}")
LLMServiceError(e) == <<"Failed to generate response: ", e>>

\* response.choices[0].message.content is None: .strip() raises inside the try
NoneContentError == "'NoneType' object has no attribute 'strip'"

CallIdle ==
    [pc |-> "idle", attempt_number |-> 0, outcomes |-> <<>>, slept |-> <<>>,
     result |-> None, raised |-> <<>>]

\* the wrapper starts the first attempt
CallStart ==
    /\ call.pc = "idle"
    /\ call' = [call EXCEPT !.pc = "attempt", !.attempt_number = 1]
    /\ UNCHANGED pipelineVars

\* mutant of AfterFailure: when the attempts are used up, the error of the
\* first failed attempt is raised instead of the last one
AfterFailureFirstError(c, err) ==
    IF StopAfterAttempt(c.attempt_number)
    THEN [c EXCEPT !.pc = "raised",
                   !.outcomes = Append(@, <<"error", err>>),
                   !.raised = Append(@, IF c.outcomes = <<>> THEN err
                                        ELSE c.outcomes[1][2])]
    ELSE [c EXCEPT !.pc = "sleep",
                   !.outcomes = Append(@, <<"error", err>>),
                   !.slept = Append(@, WaitExponential(c.attempt_number))]

\* retry=retry_if_exception_type((Exception,)), reraise=True: what the wrapper
\* does with a failed attempt whose LLMServiceError is err
AfterFailure(c, err) ==
    IF StopAfterAttempt(c.attempt_number)
    THEN [c EXCEPT !.pc = "raised",
                   !.outcomes = Append(@, <<"error", err>>),
                   !.raised = Append(@, err)]
    ELSE [c EXCEPT !.pc = "sleep",
                   !.outcomes = Append(@, <<"error", err>>),
                   !.slept = Append(@, WaitExponential(c.attempt_number))]

\* the provider answers with text: return response....content.strip()
AttemptReturns(content) ==
    /\ call.pc = "attempt"
    /\ call' = [call EXCEPT !.pc = "returned",
                            !.outcomes = Append(@, <<"text", content>>),
                            !.result = Some(Strip(content))]
    /\ UNCHANGED pipelineVars

\* the provider raises e: except Exception -> raise LLMServiceError
AttemptRaises(e) ==
    /\ call.pc = "attempt"
    /\ call' = AfterFailure(call, LLMServiceError(e))
    /\ UNCHANGED pipelineVars

\* the provider answers without content
AttemptNoContent ==
    /\ call.pc = "attempt"
    /\ call' = AfterFailure(call, LLMServiceError(NoneContentError))
    /\ UNCHANGED pipelineVars

\* the backoff sleep is over: next attempt
CallRetry ==
    /\ call.pc = "sleep"
    /\ call' = [call EXCEPT !.pc = "attempt",
                            !.attempt_number = @ + 1]
    /\ UNCHANGED pipelineVars

\* the caller has its answer; the next call of the service begins afresh
CallFinish ==
    /\ call.pc \in {"returned", "raised"}
    /\ call' = CallIdle
    /\ UNCHANGED pipelineVars

NoResponse == [op |-> "none", status |-> 0]

\* batch_size: int = 10
DefaultBatchSize == 10

\* batch_size=20, as the routers pass it
RouterBatchSize == 20

\* background_tasks.add_task(feedback_svc.enrich_unprocessed, company_id, ctx,
\*                           batch_size=20)
EnrichUnprocessedTask(company_id, batch_size) ==
    [fn |-> "enrich_unprocessed", company_id |-> company_id,
     batch_size |-> batch_size]

\* no insight request is being served
NoRequests == <<>>

\* no enrich_unprocessed is running
BatchIdle ==
    [pc |-> "idle", company_id |-> "", batch_size |-> 0, explicit |-> TRUE,
     matched |-> {}, docs |-> <<>>, i |-> 0, attempted |-> <<>>,
     slept |-> <<>>]

\* the keys of request_counts: a client address, and the key of a request
\* that has neither header nor peer
ClientIps == {"10.0.0.1", "unknown"}

\* RateLimitMiddleware.__init__: request_counts = defaultdict(list), every
\* key reads as the empty list; admitted keeps the times of the requests
\* passed downstream within the last minute, refused how often the client was
\* refused since its last admission (counted up to MaxRefusals)
LimiterIdle ==
    [request_counts |-> [ip \in ClientIps |-> <<>>],
     admitted |-> [ip \in ClientIps |-> <<>>],
     refused |-> [ip \in ClientIps |-> 0]]

\* background_tasks.add_task(feedback_svc.enrich_feedback, result.id, ctx)
EnrichFeedbackTask(feedback_id) ==
    [fn |-> "enrich_feedback", feedback_id |-> feedback_id]

PipelineIdle ==
    /\ feedbacks = <<>>
    /\ now = 0
    /\ scheduled = EmptyBag
    /\ inv = <<>>
    /\ response = NoResponse
    /\ batch = BatchIdle
    /\ insights = <<>>
    /\ gen = NoRequests
    /\ limiter = LimiterIdle

InitLLM ==
    /\ call = CallIdle
    /\ PipelineIdle

NextLLM ==
    \/ CallStart
    \/ \E content \in ProviderContents : AttemptReturns(content)
    \/ \E e \in ProviderErrors : AttemptRaises(e)
    \/ AttemptNoContent
    \/ CallRetry
    \/ CallFinish

SpecLLM == InitLLM /\ [][NextLLM]_vars

-----------------------------------------------------------------------------
(* _call_llm claims *)

\* C9: one _call_llm invocation makes between 1 and 3 provider attempts; attempt
\* k+1 is made only after attempt k raised, none is made after an attempt that
\* returned text, there is never a 4th, and no kind of provider error ends the
\* call before the 3rd attempt.
C9_AttemptsBounded ==
    /\ call.attempt_number \in 0..MaxAttempts
    /\ Len(call.outcomes) <= MaxAttempts
    /\ \A k \in 1..(Len(call.outcomes) - 1) : call.outcomes[k][1] = "error"
    /\ call.pc = "attempt" => call.attempt_number = Len(call.outcomes) + 1
    /\ call.pc = "sleep" =>
          /\ call.attempt_number = Len(call.outcomes)
          /\ call.attempt_number < MaxAttempts
          /\ call.outcomes[Len(call.outcomes)][1] = "error"
    /\ call.pc = "returned" =>
          /\ call.attempt_number = Len(call.outcomes)
          /\ call.attempt_number \in 1..MaxAttempts
          /\ call.outcomes[Len(call.outcomes)][1] = "text"
    /\ call.pc = "raised" =>
          /\ call.attempt_number = MaxAttempts
          /\ Len(call.outcomes) = MaxAttempts
          /\ call.outcomes[MaxAttempts][1] = "error"

\* a call that returned text on its third attempt, after two failed attempts
C9_Witness ==
    /\ call.pc = "returned"
    /\ Len(call.outcomes) = 3
    /\ call.outcomes[1][1] = "error"
    /\ call.outcomes[2][1] = "error"

\* C10: a call whose 3 attempts all failed raises exactly one LLMServiceError,
\* the one of the third attempt, and has no result; any other finished call
\* returns the stripped content of its first successful attempt and raises
\* nothing.
C10_LastErrorOrFullText ==
    /\ call.pc = "raised" =>
          /\ \A k \in 1..MaxAttempts : call.outcomes[k][1] = "error"
          /\ call.raised = << call.outcomes[MaxAttempts][2] >>
          /\ call.result = None
    /\ call.pc = "returned" =>
          LET n == Len(call.outcomes) IN
          /\ \A k \in 1..(n - 1) : call.outcomes[k][1] = "error"
          /\ call.outcomes[n][1] = "text"
          /\ call.result = Some(Strip(call.outcomes[n][2]))
          /\ call.raised = <<>>
    /\ (call.pc \in {"idle", "attempt", "sleep"}) =>
          /\ call.result = None
          /\ call.raised = <<>>

\* three failed attempts with different errors: the raised one is the third
C10_Witness ==
    /\ call.pc = "raised"
    /\ call.outcomes[1][2] # call.outcomes[3][2]
    /\ call.outcomes[2][2] # call.outcomes[3][2]

\* C11: the wait before retry attempt k+1 starts at 2 and doubles on each
\* successive retry, capped at 10: 2 before the 2nd attempt, 4 before the 3rd,
\* and no wait is below 2 or above 10.
C11_WaitsDouble ==
    \A k \in 1..Len(call.slept) :
       /\ call.slept[k] = Min2(WaitMin * Pow2(k - 1), WaitMax)
       /\ call.slept[k] >= WaitMin
       /\ call.slept[k] <= WaitMax

-----------------------------------------------------------------------------
(* More of Python's str, for the normalisers of LLMService *)

UpperLetters ==
    <<"A", "B", "C", "D", "E", "F", "G", "H", "I", "J", "K", "L", "M",
      "N", "O", "P", "Q", "R", "S", "T", "U", "V", "W", "X", "Y", "Z">>

LowerLetters ==
    <<"a", "b", "c", "d", "e", "f", "g", "h", "i", "j", "k", "l", "m",
      "n", "o", "p", "q", "r", "s", "t", "u", "v", "w", "x", "y", "z">>

ToUpper(c) ==
    IF \E i \in 1..26 : LowerLetters[i] = c
    THEN UpperLetters[CHOOSE i \in 1..26 : LowerLetters[i] = c]
    ELSE c

ToLower(c) ==
    IF \E i \in 1..26 : UpperLetters[i] = c
    THEN LowerLetters[CHOOSE i \in 1..26 : UpperLetters[i] = c]
    ELSE c

\* str.capitalize()
Capitalize(s) ==
    [i \in 1..Len(s) |-> IF i = 1 THEN ToUpper(s[i]) ELSE ToLower(s[i])]

\* s[:n]
Prefix(s, n) == SubSeq(s, 1, Min2(Len(s), n))

Positive == <<"P", "o", "s", "i", "t", "i", "v", "e">>

Negative == <<"N", "e", "g", "a", "t", "i", "v", "e">>

Neutral == <<"N", "e", "u", "t", "r", "a", "l">>

CategoryMaxLen == 50

\* mutant of NormaliseSentiment: the trailing period is not removed
NormaliseSentimentKeepsPeriod(sentiment) ==
    LET s == Capitalize(Strip(sentiment)) IN
    IF s \notin {Positive, Negative, Neutral} THEN Neutral ELSE s

\* analyze_sentiment, after its _call_llm returned sentiment
NormaliseSentiment(sentiment) ==
    LET s == Capitalize(RStripChars(Strip(sentiment), {"."})) IN
    IF s \notin {Positive, Negative, Neutral} THEN Neutral ELSE s

\* categorize_review, after its _call_llm returned cat
NormaliseCategory(cat) ==
    Prefix(StripChars(StripChars(Strip(cat), {"\""}), {"'"}), CategoryMaxLen)

-----------------------------------------------------------------------------
(* The four analyses of enrich_feedback and the fallbacks of failed ones *)

Analyses == {"summary", "actions", "sentiment", "category"}

ErrorGeneratingSummary ==
    <<"E", "r", "r", "o", "r", " ", "g", "e", "n", "e", "r", "a", "t", "i",
      "n", "g", " ", "s", "u", "m", "m", "a", "r", "y">>

ErrorGeneratingActions ==
    <<"E", "r", "r", "o", "r", " ", "g", "e", "n", "e", "r", "a", "t", "i",
      "n", "g", " ", "a", "c", "t", "i", "o", "n", "s">>

Unknown == <<"U", "n", "k", "n", "o", "w", "n">>

General == <<"G", "e", "n", "e", "r", "a", "l">>

\* What the provider may answer to each kind of prompt (raw contents).
UserReplyContents == { <<"T", "h", "a", "n", "k", "s", "!", "\n">> }

SummaryContents == { <<" ", "F", "a", "s", "t", ".">> }

ActionContents == { <<"1", ".", " ", "S", "h", "i", "p">> }

SentimentContents ==
    { <<"P", "O", "S", "I", "T", "I", "V", "E", ".">>,
      <<"M", "i", "x", "e", "d">> }

CategoryContents == { <<"\"", "D", "e", "l", "i", "v", "e", "r", "y", "\"">> }

\* The two ways one _call_llm invocation ends (SpecLLM follows its attempts):
\* it returns the stripped content of a successful attempt, or raises
\* LLMServiceError once its attempts are used up.
Returned(v) == <<"ok", v>>

Raised == <<"exc">>

Pending == <<"pending">>

call_llm(contents) == { Returned(Strip(c)) : c \in contents } \cup { Raised }

Then(r, f(_)) == IF r[1] = "ok" THEN Returned(f(r[2])) ELSE r

\* the results one analysis coroutine can settle with
AnalysisResults(a) ==
    CASE a = "summary"   -> call_llm(SummaryContents)
      [] a = "actions"   -> call_llm(ActionContents)
      [] a = "sentiment" ->
            { Then(r, NormaliseSentiment) : r \in call_llm(SentimentContents) }
      [] a = "category"  ->
            { Then(r, NormaliseCategory) : r \in call_llm(CategoryContents) }

\* mutant of Fallback: the fallbacks of sentiment and category are swapped
FallbackSwapped(a) ==
    CASE a = "summary"   -> ErrorGeneratingSummary
      [] a = "actions"   -> ErrorGeneratingActions
      [] a = "sentiment" -> General
      [] a = "category"  -> Unknown

Fallback(a) ==
    CASE a = "summary"   -> ErrorGeneratingSummary
      [] a = "actions"   -> ErrorGeneratingActions
      [] a = "sentiment" -> Unknown
      [] a = "category"  -> General

\* results[i] if not isinstance(results[i], Exception) else <fallback>
ValueOrFallback(results, a) ==
    IF results[a][1] = "ok" THEN results[a][2] ELSE Fallback(a)

-----------------------------------------------------------------------------
(* The document store and review intake *)

MaxReviews == 2

Companies == {"acme", "globex"}

\* an _id that no document ever has
NoSuchId == 0

MinReviewLen == 10

MaxPdfReviewLen == 2000

LongReview ==
    <<"S", "l", "o", "w", " ", "s", "h", "i", "p", "p", "i", "n", "g">>

ShortReview == <<"m", "e", "h">>

\* mutant of WebDocument: the review is stored with a default sentiment
WebDocumentPresetSentiment(company_id, review_data, ai_response, created_at) ==
    [company_id |-> company_id,
     review |-> review_data.review,
     rating |-> review_data.rating,
     product |-> review_data.product,
     category |-> None,
     ai_response |-> Some(ai_response),
     ai_summary |-> None,
     ai_actions |-> None,
     sentiment |-> Some(<<"N", "e", "u", "t", "r", "a", "l">>),
     source |-> "web",
     processed |-> FALSE,
     created_at |-> created_at,
     processed_at |-> None]

\* the document create_review inserts
WebDocument(company_id, review_data, ai_response, created_at) ==
    [company_id |-> company_id,
     review |-> review_data.review,
     rating |-> review_data.rating,
     product |-> review_data.product,
     category |-> None,
     ai_response |-> Some(ai_response),
     ai_summary |-> None,
     ai_actions |-> None,
     sentiment |-> None,
     source |-> "web",
     processed |-> FALSE,
     created_at |-> created_at,
     processed_at |-> None]

\* the document import_csv and import_pdf append to docs_to_insert
ImportedDocument(company_id, review, rating, product, source, created_at) ==
    [company_id |-> company_id,
     review |-> review,
     rating |-> rating,
     product |-> product,
     category |-> None,
     ai_response |-> None,
     ai_summary |-> None,
     ai_actions |-> None,
     sentiment |-> None,
     source |-> source,
     processed |-> FALSE,
     created_at |-> created_at,
     processed_at |-> None]

\* collection.find_one({"_id": id})
find_one(coll, id) == IF id \in DOMAIN coll THEN Some(coll[id]) ELSE None

\* collection.insert_one / insert_many: ids are handed out in insertion order
insert_many(coll, docs) == coll \o docs

\* collection.find({"company_id": company_id, "processed": False}): the ids
\* the batch query of enrich_unprocessed matches
Unprocessed(coll, company_id) ==
    { id \in DOMAIN coll :
        coll[id].company_id = company_id /\ coll[id].processed = FALSE }

\* what a body accepted by ReviewSubmit looks like
ReviewSubmits ==
    { [review |-> LongReview, rating |-> Some(4), product |-> None] }

\* mutant of SubmitReview: the review is stored before the inline reply is
\* asked for, and stays stored (ai_response null) when the reply fails
SubmitReviewSavesBeforeReply(company_id, review_data, r, insert_ok) ==
    /\ Len(feedbacks) < MaxReviews
    /\ r \in call_llm(UserReplyContents)
    /\ IF ~insert_ok
       THEN /\ response' = [op |-> "submit_review", status |-> 500,
                            raised |-> "DatabaseError"]
            /\ UNCHANGED <<feedbacks, now, scheduled, batch>>
       ELSE LET created_at == now + 1
                doc_id == Len(feedbacks) + 1
                ai_response == IF r = Raised THEN None ELSE Some(r[2])
                doc == [WebDocument(company_id, review_data, <<>>, created_at)
                          EXCEPT !.ai_response = ai_response] IN
            /\ now' = created_at
            /\ feedbacks' = insert_many(feedbacks, <<doc>>)
            /\ IF r = Raised
               THEN /\ scheduled' = scheduled
                    /\ response' = [op |-> "submit_review", status |-> 503,
                                    raised |-> "LLMServiceError"]
               ELSE /\ scheduled' = scheduled (+) SetToBag({EnrichFeedbackTask(doc_id)})
                    /\ response' = [op |-> "submit_review", status |-> 201,
                                    id |-> doc_id, ai_response |-> r[2],
                                    created_at |-> created_at]
    /\ UNCHANGED <<limiter, insights, gen, call, inv, batch>>

\* mutant of SubmitReview: the enrichment task is added before insert_one is
\* awaited, and stays queued when the insert fails
SubmitReviewSchedulesFirst(company_id, review_data, r, insert_ok) ==
    /\ Len(feedbacks) < MaxReviews
    /\ r \in call_llm(UserReplyContents)
    /\ IF r = Raised
       THEN /\ response' = [op |-> "submit_review", status |-> 503,
                            raised |-> "LLMServiceError"]
            /\ UNCHANGED <<feedbacks, now, scheduled, batch>>
       ELSE LET created_at == now + 1
                doc_id == Len(feedbacks) + 1 IN
            /\ scheduled' = scheduled (+) SetToBag({EnrichFeedbackTask(doc_id)})
            /\ IF ~insert_ok
               THEN /\ response' = [op |-> "submit_review", status |-> 500,
                                    raised |-> "DatabaseError"]
                    /\ UNCHANGED <<feedbacks, now>>
               ELSE /\ now' = created_at
                    /\ feedbacks' = insert_many(feedbacks,
                          << WebDocument(company_id, review_data, r[2],
                                         created_at) >>)
                    /\ response' = [op |-> "submit_review", status |-> 201,
                                    id |-> doc_id, ai_response |-> r[2],
                                    created_at |-> created_at]
    /\ UNCHANGED <<limiter, insights, gen, call, inv, batch>>

\* submit_review -> create_review: the inline reply r of generate_user_response,
\* then insert_one, then add_task(enrich_feedback, id)
SubmitReview(company_id, review_data, r, insert_ok) ==
    /\ Len(feedbacks) < MaxReviews
    /\ r \in call_llm(UserReplyContents)
    /\ IF r = Raised
       THEN /\ response' = [op |-> "submit_review", status |-> 503,
                            raised |-> "LLMServiceError"]
            /\ UNCHANGED <<feedbacks, now, scheduled, batch>>
       ELSE IF ~insert_ok
       THEN /\ response' = [op |-> "submit_review", status |-> 500,
                            raised |-> "DatabaseError"]
            /\ UNCHANGED <<feedbacks, now, scheduled, batch>>
       ELSE LET created_at == now + 1
                doc_id == Len(feedbacks) + 1 IN
            /\ now' = created_at
            /\ feedbacks' = insert_many(feedbacks,
                   << WebDocument(company_id, review_data, r[2], created_at) >>)
            /\ scheduled' = scheduled (+) SetToBag({EnrichFeedbackTask(doc_id)})
            /\ response' = [op |-> "submit_review", status |-> 201,
                            id |-> doc_id, ai_response |-> r[2],
                            created_at |-> created_at]
    /\ UNCHANGED <<limiter, insights, gen, call, inv, batch>>

\* a rating cell of a CSV row, as text: empty, a number (in tenths), or junk
CsvRatings ==
    { [k |-> "empty"], [k |-> "num", tenths |-> 47], [k |-> "num", tenths |-> 90],
      [k |-> "junk"] }

\* rating = int(float(rating_raw)); out of 1..5 or unparseable -> None
ParseRating(raw) ==
    IF raw.k = "num"
    THEN LET rating == raw.tenths \div 10 IN
         IF rating < 1 \/ rating > 5 THEN None ELSE Some(rating)
    ELSE None

CsvRows ==
    { [review |-> rv, rating |-> rt] :
        rv \in {LongReview, ShortReview}, rt \in CsvRatings }

RECURSIVE CsvDocuments(_, _, _)
\* the docs_to_insert of import_csv for these rows, stamped from clock on
CsvDocuments(company_id, rows, clock) ==
    IF rows = <<>> THEN <<>>
    ELSE LET row == Head(rows)
             review_text == Strip(row.review) IN
         IF Len(review_text) < MinReviewLen
         THEN CsvDocuments(company_id, Tail(rows), clock)
         ELSE << ImportedDocument(company_id, review_text,
                                  ParseRating(row.rating), None,
                                  "import_csv", clock + 1) >>
              \o CsvDocuments(company_id, Tail(rows), clock + 1)

RECURSIVE PdfDocuments(_, _, _)
\* the docs_to_insert of import_pdf for these extracted paragraphs
PdfDocuments(company_id, paragraphs, clock) ==
    IF paragraphs = <<>> THEN <<>>
    ELSE LET p == Strip(Head(paragraphs)) IN
         IF Len(p) >= MinReviewLen
         THEN << ImportedDocument(company_id, Prefix(p, MaxPdfReviewLen),
                                  None, None, "import_pdf", clock + 1) >>
              \o PdfDocuments(company_id, Tail(paragraphs), clock + 1)
         ELSE PdfDocuments(company_id, Tail(paragraphs), clock)

\* mutant of QueueEnrichUnprocessed: the batch is queued whatever the import
\* inserted
QueueEnrichUnprocessedAlways(company_id, queued) ==
    scheduled' = scheduled (+)
                    SetToBag({EnrichUnprocessedTask(company_id, RouterBatchSize)})

\* if result["queued"] > 0:
\*     background_tasks.add_task(enrich_unprocessed, company_id, ctx, batch_size=20)
QueueEnrichUnprocessed(company_id, queued) ==
    scheduled' =
       IF queued > 0
       THEN scheduled (+)
               SetToBag({EnrichUnprocessedTask(company_id, RouterBatchSize)})
       ELSE scheduled

\* the tail both import endpoints share: insert_many when there is something
\* to insert, the batch queued by the router, and the summary returned
ImportDocuments(op, company_id, total, docs, insert_ok) ==
    LET inserted == IF insert_ok THEN Len(docs) ELSE 0 IN
    /\ feedbacks' = IF insert_ok THEN insert_many(feedbacks, docs) ELSE feedbacks
    /\ now' = now + inserted
    /\ QueueEnrichUnprocessed(company_id, inserted)
    /\ response' = [op |-> op, status |-> 200, total_reviews |-> total,
                    queued |-> inserted, failed |-> total - inserted]
    /\ UNCHANGED <<limiter, insights, gen, call, batch, inv>>

\* ImportService.import_csv
ImportCsv(company_id, rows, insert_ok) ==
    LET docs == CsvDocuments(company_id, rows, now) IN
    /\ Len(feedbacks) + Len(docs) <= MaxReviews
    /\ ImportDocuments("import_csv", company_id, Len(rows), docs, insert_ok)

\* ImportService.import_pdf
ImportPdf(company_id, paragraphs, insert_ok) ==
    LET docs == PdfDocuments(company_id, paragraphs, now) IN
    /\ Len(feedbacks) + Len(docs) <= MaxReviews
    /\ LET inserted == IF insert_ok THEN Len(docs) ELSE 0
           errors == IF docs # <<>> /\ ~insert_ok THEN 1 ELSE 0 IN
       ImportDocuments("import_pdf", company_id, inserted + errors, docs,
                       insert_ok)

-----------------------------------------------------------------------------
(* FeedbackService.enrich_feedback, one invocation per task slot *)

NoResults == [a \in Analyses |-> Pending]

\* an enrich_feedback slot before its call; calls follows the _call_llm of
\* each analysis through its attempts
InvIdle ==
    [pc |-> "idle", feedback_id |-> NoSuchId, doc |-> None,
     results |-> NoResults, outcome |-> "none", llm_calls |-> 0,
     logged |-> FALSE, raised |-> FALSE, reply |-> Pending,
     calls |-> [a \in Analyses |-> CallIdle]]

AllSettled(results) == \A a \in Analyses : results[a] # Pending

\* mutant of SkipEnrichment: a missing document is not skipped
SkipEnrichmentIgnoresMissing(doc) == doc # None /\ doc[1].processed

\* mutant of SkipEnrichment: a processed document is not skipped
SkipEnrichmentIgnoresProcessed(doc) == doc = None

\* if not doc or doc.get("processed"): return
SkipEnrichment(doc) == doc = None \/ doc[1].processed

\* mutant of ExceptionHandler: the error is logged and raised again
ExceptionHandlerReraises(i) ==
    [i EXCEPT !.pc = "done", !.outcome = "store_error", !.logged = TRUE,
              !.raised = TRUE, !.results = NoResults]

\* except Exception as e: logger.error(...)  -- the handler ends the call
ExceptionHandler(i) ==
    [i EXCEPT !.pc = "done", !.outcome = "store_error", !.logged = TRUE,
              !.raised = FALSE, !.results = NoResults]

\* mutant of EnrichmentFields: a failed analysis leaves its field unset
EnrichmentFieldsNoFallback(d, results, processed_at) ==
    LET value(a) == IF results[a][1] = "ok" THEN Some(results[a][2]) ELSE None
    IN [d EXCEPT !.ai_summary = value("summary"),
                 !.ai_actions = value("actions"),
                 !.sentiment = value("sentiment"),
                 !.category = value("category"),
                 !.processed = TRUE,
                 !.processed_at = Some(processed_at)]

\* mutant of EnrichmentFields: the update does not stamp processed_at
EnrichmentFieldsWithoutStamp(d, results, processed_at) ==
    [d EXCEPT !.ai_summary = Some(ValueOrFallback(results, "summary")),
              !.ai_actions = Some(ValueOrFallback(results, "actions")),
              !.sentiment = Some(ValueOrFallback(results, "sentiment")),
              !.category = Some(ValueOrFallback(results, "category")),
              !.processed = TRUE]

\* the $set of the final update_one
EnrichmentFields(d, results, processed_at) ==
    [d EXCEPT !.ai_summary = Some(ValueOrFallback(results, "summary")),
              !.ai_actions = Some(ValueOrFallback(results, "actions")),
              !.sentiment = Some(ValueOrFallback(results, "sentiment")),
              !.category = Some(ValueOrFallback(results, "category")),
              !.processed = TRUE,
              !.processed_at = Some(processed_at)]

\* mutant of update_one: a sentiment already stored is kept
update_oneKeepsSentiment(coll, id, results, processed_at) ==
    IF id \in DOMAIN coll
    THEN [coll EXCEPT ![id] =
            IF @.processed
            THEN [EnrichmentFields(@, results, processed_at)
                     EXCEPT !.sentiment = coll[id].sentiment]
            ELSE EnrichmentFields(@, results, processed_at)]
    ELSE coll

\* mutant of update_one: when every analysis failed the review is put back for
\* a later pass instead of being enriched with the fallbacks
update_oneRetriesLater(coll, id, results, processed_at) ==
    IF id \in DOMAIN coll
    THEN IF \A a \in Analyses : results[a] = Raised
         THEN [coll EXCEPT ![id].processed = FALSE]
         ELSE [coll EXCEPT ![id] = EnrichmentFields(@, results, processed_at)]
    ELSE coll

\* mutant of update_one: the document is replaced by the enrichment, and the
\* inline reply stored at creation is lost
update_oneReplacesReply(coll, id, results, processed_at) ==
    IF id \in DOMAIN coll
    THEN [coll EXCEPT ![id] =
            [EnrichmentFields(@, results, processed_at)
                EXCEPT !.ai_response = None]]
    ELSE coll

\* collection.update_one({"_id": id}, {"$set": ...}): no match, no change
update_one(coll, id, results, processed_at) ==
    IF id \in DOMAIN coll
    THEN [coll EXCEPT ![id] = EnrichmentFields(@, results, processed_at)]
    ELSE coll

\* mutant of GatherReturned: the gather returns with the first result
GatherReturnedFirstCompleted(i) ==
    i.pc = "gather" /\ \E a \in Analyses : i.results[a] # Pending

\* may the final update be issued?  await asyncio.gather(...) has returned
GatherReturned(i) == i.pc = "gather" /\ AllSettled(i.results)

\* enrich_feedback(feedback_id) is called and awaits find_one
StartInvocation(t, feedback_id) ==
    inv' = [inv EXCEPT ![t] = [InvIdle EXCEPT !.pc = "find_one",
                                              !.feedback_id = feedback_id]]

\* a direct call, for any id (of a document or not)
Invoke(t, feedback_id) ==
    /\ inv[t].pc = "idle"
    /\ StartInvocation(t, feedback_id)
    /\ UNCHANGED <<limiter, insights, gen, call, feedbacks, now, scheduled, batch, response>>

\* the background task queued by submit_review starts
RunScheduled(t, feedback_id) ==
    /\ inv[t].pc = "idle"
    /\ BagIn(EnrichFeedbackTask(feedback_id), scheduled)
    /\ scheduled' = scheduled (-) SetToBag({EnrichFeedbackTask(feedback_id)})
    /\ StartInvocation(t, feedback_id)
    /\ UNCHANGED <<limiter, insights, gen, call, feedbacks, now, response, batch>>

\* find_one returns: skip, or launch the four analyses with asyncio.gather
FindOne(t) ==
    /\ inv[t].pc = "find_one"
    /\ LET doc == find_one(feedbacks, inv[t].feedback_id) IN
       inv' = [inv EXCEPT ![t] =
                 IF SkipEnrichment(doc)
                 THEN [@ EXCEPT !.pc = "done", !.outcome = "skipped",
                                !.doc = doc]
                 ELSE [@ EXCEPT !.pc = "gather", !.doc = doc,
                                !.llm_calls = Cardinality(Analyses)]]
    /\ UNCHANGED <<limiter, insights, gen, call, feedbacks, now, scheduled, batch, response>>

\* find_one raises
FindOneRaises(t) ==
    /\ inv[t].pc = "find_one"
    /\ inv' = [inv EXCEPT ![t] = ExceptionHandler(@)]
    /\ UNCHANGED <<limiter, insights, gen, call, feedbacks, now, scheduled, batch, response>>

\* one of the four gathered coroutines settles (return_exceptions=True)
AnalysisSettles(t, a, r) ==
    /\ inv[t].pc = "gather"
    /\ inv[t].results[a] = Pending
    /\ r \in AnalysisResults(a)
    /\ inv' = [inv EXCEPT ![t].results[a] = r]
    /\ UNCHANGED <<limiter, insights, gen, call, feedbacks, now, scheduled, batch, response>>

\* analyze_sentiment settles, its provider outcome o kept with the result: o is
\* the content the provider answered with, or Raised when _call_llm gave up
SentimentSettles(t, o) ==
    /\ inv[t].pc = "gather"
    /\ inv[t].results["sentiment"] = Pending
    /\ inv' = [inv EXCEPT
                 ![t].results["sentiment"] =
                     Then(Then(o, Strip), NormaliseSentiment),
                 ![t].reply = o]
    /\ UNCHANGED <<limiter, insights, gen, call, feedbacks, now, scheduled, batch, response>>

\* what asyncio.gather(..., return_exceptions=True) can return when the
\* provider is up, or down, for all four analyses
GatherOutcomes ==
    { [a \in Analyses |-> Raised] } \cup
    { [summary |-> s, actions |-> ac, sentiment |-> se, category |-> ca] :
        s \in AnalysisResults("summary") \ {Raised},
        ac \in AnalysisResults("actions") \ {Raised},
        se \in AnalysisResults("sentiment") \ {Raised},
        ca \in AnalysisResults("category") \ {Raised} }

\* the four gathered coroutines have all settled: the gather returns results
GatherSettles(t, results) ==
    /\ inv[t].pc = "gather"
    /\ inv[t].results = NoResults
    /\ results \in GatherOutcomes
    /\ inv' = [inv EXCEPT ![t].results = results]
    /\ UNCHANGED <<limiter, insights, gen, call, feedbacks, now, scheduled, batch, response>>

\* mutant of UpdateOne: the update leaves processed as it was
UpdateOneLeavesProcessed(t) ==
    /\ GatherReturned(inv[t])
    /\ now' = now + 1
    /\ feedbacks' =
          IF inv[t].feedback_id \in DOMAIN feedbacks
          THEN [update_one(feedbacks, inv[t].feedback_id, inv[t].results, now')
                   EXCEPT ![inv[t].feedback_id].processed =
                             feedbacks[inv[t].feedback_id].processed]
          ELSE feedbacks
    /\ inv' = [inv EXCEPT ![t] = [@ EXCEPT !.pc = "done",
                                            !.outcome = "updated",
                                            !.results = NoResults]]
    /\ UNCHANGED <<limiter, insights, gen, call, scheduled, batch, response>>

\* the final update_one succeeds
UpdateOne(t) ==
    /\ GatherReturned(inv[t])
    /\ now' = now + 1
    /\ feedbacks' = update_one(feedbacks, inv[t].feedback_id,
                               inv[t].results, now')
    /\ inv' = [inv EXCEPT ![t] = [@ EXCEPT !.pc = "done",
                                            !.outcome = "updated",
                                            !.results = NoResults]]
    /\ UNCHANGED <<limiter, insights, gen, call, scheduled, batch, response>>

\* mutant of UpdateOneRaises: the handler marks the review processed
UpdateOneRaisesMarksProcessed(t) ==
    /\ GatherReturned(inv[t])
    /\ inv' = [inv EXCEPT ![t] = ExceptionHandler(@)]
    /\ feedbacks' = IF inv[t].feedback_id \in DOMAIN feedbacks
                    THEN [feedbacks EXCEPT ![inv[t].feedback_id].processed = TRUE]
                    ELSE feedbacks
    /\ UNCHANGED <<limiter, insights, gen, call, now, scheduled, batch, response>>

\* the final update_one raises: the store is not changed
UpdateOneRaises(t) ==
    /\ GatherReturned(inv[t])
    /\ inv' = [inv EXCEPT ![t] = ExceptionHandler(@)]
    /\ UNCHANGED <<limiter, insights, gen, call, feedbacks, now, scheduled, batch, response>>

\* the coroutine is over; the slot serves the next invocation
Return(t) ==
    /\ inv[t].pc = "done"
    /\ inv' = [inv EXCEPT ![t] = InvIdle]
    /\ UNCHANGED <<limiter, insights, gen, call, feedbacks, now, scheduled, batch, response>>

-----------------------------------------------------------------------------
(* FeedbackService.enrich_unprocessed: the batch pass over a tenant's        *)
(* unprocessed reviews; the enrich_feedback call for docs[k] runs in slot k  *)

\* asyncio.sleep(0.5), in tenths of a time unit
PacingDelay == 5

SlotNames == <<"doc1", "doc2", "doc3", "doc4", "doc5">>

BatchSlot(k) == SlotNames[k]

BatchSlots == { BatchSlot(k) : k \in 1..MaxReviews }

\* mutant of CursorToList: the limit is not applied
CursorToListNoLimit(ids, batch_size) ==
    { docs \in [1..Cardinality(ids) -> ids] :
        \A j, k \in 1..Cardinality(ids) : j # k => docs[j] # docs[k] }

\* cursor.limit(batch_size), to_list(length=batch_size) on a find without a
\* sort: as many of the matching ids as the limit allows, in whatever order
\* the store returns them
CursorToList(ids, batch_size) ==
    LET length == Min2(Cardinality(ids), batch_size) IN
    { docs \in [1..length -> ids] :
        \A j, k \in 1..length : j # k => docs[j] # docs[k] }

\* enrich_unprocessed(company_id, ctx, batch_size) is called and its query
\* answered with docs; explicit tells whether batch_size was passed
StartBatch(company_id, batch_size, explicit, docs) ==
    /\ batch.pc = "idle"
    /\ docs \in CursorToList(Unprocessed(feedbacks, company_id), batch_size)
    /\ batch' = [BatchIdle EXCEPT !.pc = "loop", !.company_id = company_id,
                                  !.batch_size = batch_size,
                                  !.explicit = explicit,
                                  !.matched = Unprocessed(feedbacks, company_id),
                                  !.docs = docs, !.i = 1]

\* a direct call of enrich_unprocessed, with a batch size or with the default
EnrichUnprocessed(company_id, batch_size, explicit, docs) ==
    /\ explicit \/ batch_size = DefaultBatchSize
    /\ StartBatch(company_id, batch_size, explicit, docs)
    /\ UNCHANGED <<limiter, insights, gen, call, feedbacks, now, scheduled, inv, response>>

\* POST /process-pending: the batch is queued and the message returned (the
\* admin asks again only once the pass asked for has started)
ProcessPending(company_id) ==
    /\ ~BagIn(EnrichUnprocessedTask(company_id, RouterBatchSize), scheduled)
    /\ scheduled' = scheduled (+)
                       SetToBag({EnrichUnprocessedTask(company_id, RouterBatchSize)})
    /\ response' = [op |-> "process_pending", status |-> 200]
    /\ UNCHANGED <<limiter, insights, gen, call, feedbacks, now, inv, batch>>

\* a queued enrich_unprocessed task starts, after its response was sent
RunScheduledBatch(company_id, docs) ==
    LET task == EnrichUnprocessedTask(company_id, RouterBatchSize) IN
    /\ BagIn(task, scheduled)
    /\ scheduled' = scheduled (-) SetToBag({task})
    /\ StartBatch(company_id, task.batch_size, TRUE, docs)
    /\ UNCHANGED <<limiter, insights, gen, call, feedbacks, now, inv, response>>

\* for doc in docs: await self.enrich_feedback(str(doc["_id"]), ctx)
BatchCall ==
    /\ batch.pc = "loop"
    /\ batch.i <= Len(batch.docs)
    /\ StartInvocation(BatchSlot(batch.i), batch.docs[batch.i])
    /\ batch' = [batch EXCEPT !.pc = "await",
                              !.attempted = Append(@, batch.docs[batch.i])]
    /\ UNCHANGED <<limiter, insights, gen, call, feedbacks, now, scheduled, response>>

\* mutant of BatchAwaitReturns: the call is not awaited, the loop goes on
\* while the enrichment it started is still running
BatchAwaitReturnsAtOnce ==
    /\ batch.pc = "await"
    /\ batch' = [batch EXCEPT !.pc = "sleep",
                              !.slept = Append(@, PacingDelay)]
    /\ UNCHANGED <<limiter, insights, gen, call, feedbacks, now, scheduled, inv, response>>

\* the awaited enrich_feedback is over: await asyncio.sleep(0.5) when it
\* returned; an exception it raised would leave the loop and enrich_unprocessed,
\* which has no handler
BatchAwaitReturns ==
    /\ batch.pc = "await"
    /\ inv[BatchSlot(batch.i)].pc = "done"
    /\ batch' = IF inv[BatchSlot(batch.i)].raised
                THEN [batch EXCEPT !.pc = "raised"]
                ELSE [batch EXCEPT !.pc = "sleep",
                                   !.slept = Append(@, PacingDelay)]
    /\ UNCHANGED <<limiter, insights, gen, call, feedbacks, now, scheduled, inv, response>>

\* the sleep is over: the next document, if any
BatchWake ==
    /\ batch.pc = "sleep"
    /\ batch' = [batch EXCEPT !.pc = "loop", !.i = @ + 1]
    /\ UNCHANGED <<limiter, insights, gen, call, feedbacks, now, scheduled, inv, response>>

\* docs is exhausted: enrich_unprocessed returns
BatchReturns ==
    /\ batch.pc = "loop"
    /\ batch.i > Len(batch.docs)
    /\ batch' = [batch EXCEPT !.pc = "done"]
    /\ UNCHANGED <<limiter, insights, gen, call, feedbacks, now, scheduled, inv, response>>

\* the task is over; its coroutines are gone
BatchOver ==
    /\ batch.pc = "done"
    /\ batch' = BatchIdle
    /\ inv' = [t \in DOMAIN inv |-> IF t \in BatchSlots THEN InvIdle ELSE inv[t]]
    /\ UNCHANGED <<limiter, insights, gen, call, feedbacks, now, scheduled, response>>

\* the steps of enrich_unprocessed after its query
Batch == BatchCall \/ BatchAwaitReturns \/ BatchWake \/ BatchReturns \/ BatchOver

\* a provider that is up, or down, for a whole invocation: r ends the way the
\* analyses that have settled ended
SameFate(results, r) ==
    \A a \in Analyses : results[a] # Pending => results[a][1] = r[1]

\* the steps of the enrich_feedback call running in slot t, up to its return
Enrichment(t) ==
    \/ FindOne(t)
    \/ FindOneRaises(t)
    \/ UpdateOne(t)
    \/ UpdateOneRaises(t)
    \/ \E a \in Analyses :
          \E r \in AnalysisResults(a) :
             SameFate(inv[t].results, r) /\ AnalysisSettles(t, a, r)

-----------------------------------------------------------------------------

\* the event loop of the running service: one background task at a time
Workers == {"background"}

Init ==
    /\ call = CallIdle
    /\ feedbacks = <<>>
    /\ now = 0
    /\ scheduled = EmptyBag
    /\ inv = [t \in Workers |-> InvIdle]
    /\ response = NoResponse
    /\ batch = BatchIdle
    /\ insights = <<>>
    /\ gen = NoRequests
    /\ limiter = LimiterIdle

\* uploaded files, as parsed: CSV rows, and the paragraphs of a PDF's text
CsvFiles ==
    { << [review |-> LongReview, rating |-> [k |-> "num", tenths |-> 47]] >>,
      << [review |-> ShortReview, rating |-> [k |-> "empty"]],
         [review |-> LongReview, rating |-> [k |-> "num", tenths |-> 90]],
         [review |-> LongReview, rating |-> [k |-> "junk"]] >> }

PdfTexts == { <<ShortReview, LongReview>>, <<LongReview, LongReview>> }

Intake ==
    \/ \E c \in Companies, d \in ReviewSubmits,
          r \in call_llm(UserReplyContents), ok \in BOOLEAN :
          SubmitReview(c, d, r, ok)
    \/ \E c \in Companies, rows \in CsvFiles, ok \in BOOLEAN :
          ImportCsv(c, rows, ok)
    \/ \E c \in Companies, ps \in PdfTexts, ok \in BOOLEAN :
          ImportPdf(c, ps, ok)

\* the steps of enrich_feedback other than the settling of its analyses
Orchestrator ==
    \/ \E t \in DOMAIN inv \ BatchSlots : FindOne(t)
    \/ \E t \in DOMAIN inv \ BatchSlots : FindOneRaises(t)
    \/ \E t \in DOMAIN inv \ BatchSlots : UpdateOne(t)
    \/ \E t \in DOMAIN inv \ BatchSlots : UpdateOneRaises(t)
    \/ \E t \in DOMAIN inv \ BatchSlots : Return(t)

\* Spec follows intake and the enrichment of submitted reviews, with a provider
\* that is up or down for all four analyses of an invocation (SpecEnrich
\* follows every combination); the batch tasks the imports queue are run in
\* SpecTrigger.
Next ==
    \/ Intake
    \/ \E t \in Workers, id \in 1..MaxReviews : RunScheduled(t, id)
    \/ Orchestrator
    \/ \E t \in Workers, a \in Analyses :
          \E r \in AnalysisResults(a) :
             SameFate(inv[t].results, r) /\ AnalysisSettles(t, a, r)

Spec == Init /\ [][Next]_vars

-----------------------------------------------------------------------------
(* SpecTrigger: the endpoints that queue enrich_unprocessed (the imports and *)
(* process-pending) and the batch passes their tasks run, one pass at a time *)

\* the steps of the enrich_feedback call running in slot t while the store
\* answers its read and its write (SpecBatch and SpecEnrich follow the store
\* failures), its gather taken as one step
EnrichmentByGather(t) ==
    \/ FindOne(t)
    \/ UpdateOne(t)
    \/ \E results \in GatherOutcomes : GatherSettles(t, results)

\* uploads of one review, and uploads with nothing to import
TriggerCsvFiles ==
    { << [review |-> LongReview, rating |-> [k |-> "num", tenths |-> 47]] >>,
      << [review |-> ShortReview, rating |-> [k |-> "empty"]] >> }

TriggerPdfTexts == { <<LongReview>>, <<ShortReview>> }

\* the tenant whose admin uploads and asks for pending reviews
TriggerCompanies == {"acme"}

InitTrigger ==
    /\ call = CallIdle
    /\ feedbacks = <<>>
    /\ now = 0
    /\ scheduled = EmptyBag
    /\ inv = [t \in BatchSlots |-> InvIdle]
    /\ response = NoResponse
    /\ batch = BatchIdle
    /\ insights = <<>>
    /\ gen = NoRequests
    /\ limiter = LimiterIdle

NextTrigger ==
    \/ \E c \in TriggerCompanies, rows \in TriggerCsvFiles, ok \in BOOLEAN :
          ImportCsv(c, rows, ok)
    \/ \E c \in TriggerCompanies, ps \in TriggerPdfTexts, ok \in BOOLEAN :
          ImportPdf(c, ps, ok)
    \/ \E c \in TriggerCompanies : ProcessPending(c)
    \/ \E c \in TriggerCompanies :
          \E docs \in CursorToList(Unprocessed(feedbacks, c), RouterBatchSize) :
             RunScheduledBatch(c, docs)
    \/ Batch
    \/ \E t \in BatchSlots : EnrichmentByGather(t)

SpecTrigger == InitTrigger /\ [][NextTrigger]_vars

-----------------------------------------------------------------------------
(* SpecEnrich: two concurrent enrich_feedback invocations on a store that   *)
(* intake has filled, every analysis free to return or raise on its own     *)

EnrichTasks == {"task1", "task2"}

\* the store as one create_review leaves it
EnrichStores ==
    LET web == WebDocument("acme",
                   [review |-> LongReview, rating |-> Some(4), product |-> None],
                   Strip(<<"T", "h", "a", "n", "k", "s", "!", "\n">>), 1)
    IN { <<web>> }

InitEnrich ==
    /\ call = CallIdle
    /\ feedbacks \in EnrichStores
    /\ now = Len(feedbacks)
    /\ scheduled = SetToBag({EnrichFeedbackTask(1)})
    /\ inv = [t \in EnrichTasks |-> InvIdle]
    /\ response = NoResponse
    /\ batch = BatchIdle
    /\ insights = <<>>
    /\ gen = NoRequests
    /\ limiter = LimiterIdle

NextEnrich ==
    \/ \E t \in DOMAIN inv, id \in 0..Len(feedbacks) : Invoke(t, id)
    \/ \E t \in DOMAIN inv, id \in DOMAIN feedbacks : RunScheduled(t, id)
    \/ Orchestrator
    \/ \E t \in DOMAIN inv, a \in Analyses :
          \E r \in AnalysisResults(a) : AnalysisSettles(t, a, r)

SpecEnrich == InitEnrich /\ [][NextEnrich]_vars

-----------------------------------------------------------------------------
(* SpecSentiment: one enrich_feedback invocation at a time, the provider     *)
(* answering the sentiment prompt with any of SentimentReplies               *)

SentimentTasks == {"task1"}

\* what a completion provider may answer the sentiment prompt with
SentimentReplies ==
    { <<"p", "o", "s", "i", "t", "i", "v", "e">>,
      <<"P", "O", "S", "I", "T", "I", "V", "E", ".">>,
      <<" ", "P", "o", "s", "i", "t", "i", "v", "e", " ">>,
      <<"P", "o", "s", "i", "t", "i", "v", "e", ".", ".">>,
      <<"P", "o", "s", "i", "t", "i", "v", "e", " ", ".">>,
      <<"n", "E", "G", "A", "T", "I", "V", "E", ".", "\n">>,
      <<"N", "e", "u", "t", "r", "a", "l">>,
      <<"M", "i", "x", "e", "d">>,
      <<"U", "n", "k", "n", "o", "w", "n">>,
      <<"P", "o", "s", "i", "t", "i", "v", "e", "l", "y">>,
      <<>> }

InitSentiment ==
    /\ call = CallIdle
    /\ feedbacks \in EnrichStores
    /\ now = Len(feedbacks)
    /\ scheduled = SetToBag({EnrichFeedbackTask(1)})
    /\ inv = [t \in SentimentTasks |-> InvIdle]
    /\ response = NoResponse
    /\ batch = BatchIdle
    /\ insights = <<>>
    /\ gen = NoRequests
    /\ limiter = LimiterIdle

NextSentiment ==
    \/ \E t \in DOMAIN inv, id \in 0..Len(feedbacks) : Invoke(t, id)
    \/ \E t \in DOMAIN inv, id \in DOMAIN feedbacks : RunScheduled(t, id)
    \/ Orchestrator
    \/ \E t \in DOMAIN inv, a \in Analyses \ {"sentiment"} :
          \E r \in AnalysisResults(a) : AnalysisSettles(t, a, r)
    \/ \E t \in DOMAIN inv, c \in SentimentReplies :
          SentimentSettles(t, Returned(c))
    \/ \E t \in DOMAIN inv : SentimentSettles(t, Raised)

SpecSentiment == InitSentiment /\ [][NextSentiment]_vars

-----------------------------------------------------------------------------
(* SpecBatch: enrich_unprocessed passes over stores that imports have filled *)
(* and earlier passes have partly processed                                 *)

\* an imported review of company_id, the k-th document of its store
PendingReview(company_id, k) ==
    ImportedDocument(company_id, LongReview, None, None, "import_csv", k)

\* the same review once an enrichment has written it at time processed_at
ProcessedReview(company_id, k, processed_at) ==
    EnrichmentFields(PendingReview(company_id, k),
                     [a \in Analyses |-> Raised], processed_at)

BatchStoreOf(kinds) ==
    [k \in 1..Len(kinds) |->
        CASE kinds[k] = "pending" -> PendingReview("acme", k)
          [] kinds[k] = "processed" ->
                ProcessedReview("acme", k, Len(kinds) + k)
          [] kinds[k] = "other" -> PendingReview("globex", k)]

BatchStores ==
    { BatchStoreOf(kinds) :
        kinds \in UNION { [1..n -> {"pending", "processed", "other"}] :
                            n \in 0..MaxReviews } }

\* the batch sizes a caller passes
BatchSizes == {1, 2, RouterBatchSize}

InitBatch ==
    /\ call = CallIdle
    /\ feedbacks \in BatchStores
    /\ now = 2 * Len(feedbacks)
    /\ scheduled = EmptyBag
    /\ inv = [t \in BatchSlots |-> InvIdle]
    /\ response = NoResponse
    /\ batch = BatchIdle
    /\ insights = <<>>
    /\ gen = NoRequests
    /\ limiter = LimiterIdle

NextBatch ==
    \/ \E c \in Companies, b \in BatchSizes :
          \E docs \in CursorToList(Unprocessed(feedbacks, c), b) :
             EnrichUnprocessed(c, b, TRUE, docs)
    \/ \E c \in Companies :
          \E docs \in CursorToList(Unprocessed(feedbacks, c), DefaultBatchSize) :
             EnrichUnprocessed(c, DefaultBatchSize, FALSE, docs)
    \/ Batch
    \/ \E t \in BatchSlots : Enrichment(t)

SpecBatch == InitBatch /\ [][NextBatch]_vars

-----------------------------------------------------------------------------
(* InsightService: the aggregated insight of a tenant and its cached record  *)

\* limit: int = 50
DefaultLimit == 50

StartsWith(s, prefix) ==
    Len(s) >= Len(prefix) /\ SubSeq(s, 1, Len(prefix)) = prefix

EndsWith(s, suffix) ==
    /\ Len(s) >= Len(suffix)
    /\ SubSeq(s, Len(s) - Len(suffix) + 1, Len(s)) = suffix

\* s[n:]
Drop(s, n) == SubSeq(s, n + 1, Len(s))

\* s.find(c) + 1: the first position of c in s, 0 when c is not in s
IndexOf(s, c) ==
    IF \E i \in 1..Len(s) : s[i] = c
    THEN CHOOSE i \in 1..Len(s) : s[i] = c /\ \A j \in 1..(i - 1) : s[j] # c
    ELSE 0

\* the grave accent, a character no TLA+ string can hold
Backtick == "GRAVE ACCENT"

CodeFence == <<Backtick, Backtick, Backtick>>

JsonTag == <<"j", "s", "o", "n">>

\* the cleaning of raw before json.loads: code fences and a leading "json"
StripCodeFences(raw) ==
    LET clean0 == Strip(raw)
        clean1 == IF StartsWith(clean0, CodeFence)
                  THEN IF IndexOf(clean0, "\n") # 0
                       THEN Drop(clean0, IndexOf(clean0, "\n"))
                       ELSE Drop(clean0, 3)
                  ELSE clean0
        clean2 == IF EndsWith(clean1, CodeFence)
                  THEN SubSeq(clean1, 1, Len(clean1) - 3)
                  ELSE clean1
        clean3 == Strip(clean2)
    IN  IF StartsWith(clean3, JsonTag) THEN Strip(Drop(clean3, 4)) ELSE clean3

\* Python values, tagged with their type
PyStr(s) == [t |-> "str", s |-> s]

PyInt(n) == [t |-> "int", n |-> n]

PyBool(b) == [t |-> "bool", b |-> b]

PyNone == [t |-> "NoneType"]

PyList(items) == [t |-> "list", items |-> items]

PyDict(d) == [t |-> "dict", d |-> d]

\* an empty dict: no key is mapped
NoItems == <<>>

\* json.loads on the documents made of objects, arrays, strings without
\* escapes, unsigned integers, true, false and null: the value and the text
\* left after it, or an error
JsonWhitespace == {" ", "\t", "\n", "\r"}

JsonSkip(s) == LStripChars(s, JsonWhitespace)

Digits == <<"0", "1", "2", "3", "4", "5", "6", "7", "8", "9">>

IsDigit(c) == \E d \in 1..10 : Digits[d] = c

DigitValue(c) == (CHOOSE d \in 1..10 : Digits[d] = c) - 1

JsonError == [ok |-> FALSE]

JsonOk(v, rest) == [ok |-> TRUE, v |-> v, rest |-> rest]

RECURSIVE JsonInt(_, _)
JsonInt(s, acc) ==
    IF s # <<>> /\ IsDigit(Head(s))
    THEN JsonInt(Tail(s), 10 * acc + DigitValue(Head(s)))
    ELSE JsonOk(PyInt(acc), s)

\* s follows an opening quote
JsonString(s) ==
    LET close == IndexOf(s, "\"") IN
    IF close = 0 \/ IndexOf(SubSeq(s, 1, close - 1), "\\") # 0
    THEN JsonError
    ELSE JsonOk(PyStr(SubSeq(s, 1, close - 1)), Drop(s, close))

RECURSIVE JsonValue(_), JsonElements(_, _), JsonMembers(_, _)
JsonValue(text) ==
    LET s == JsonSkip(text) IN
    IF s = <<>> THEN JsonError
    ELSE IF Head(s) = "\"" THEN JsonString(Tail(s))
    ELSE IF Head(s) = "[" THEN
         LET r == JsonSkip(Tail(s)) IN
         IF r # <<>> /\ Head(r) = "]"
         THEN JsonOk(PyList(<<>>), Tail(r))
         ELSE JsonElements(r, <<>>)
    ELSE IF Head(s) = "{" THEN
         LET r == JsonSkip(Tail(s)) IN
         IF r # <<>> /\ Head(r) = "}"
         THEN JsonOk(PyDict(NoItems), Tail(r))
         ELSE JsonMembers(r, NoItems)
    ELSE IF StartsWith(s, <<"n", "u", "l", "l">>)
         THEN JsonOk(PyNone, Drop(s, 4))
    ELSE IF StartsWith(s, <<"t", "r", "u", "e">>)
         THEN JsonOk(PyBool(TRUE), Drop(s, 4))
    ELSE IF StartsWith(s, <<"f", "a", "l", "s", "e">>)
         THEN JsonOk(PyBool(FALSE), Drop(s, 5))
    ELSE IF IsDigit(Head(s)) /\ ~(Head(s) = "0" /\ Len(s) > 1 /\ IsDigit(s[2]))
         THEN JsonInt(s, 0)
    ELSE JsonError

\* s is at the start of an array element, items are the elements before it
JsonElements(s, items) ==
    LET e == JsonValue(s) IN
    IF ~e.ok THEN JsonError
    ELSE LET r == JsonSkip(e.rest) IN
         IF r = <<>> THEN JsonError
         ELSE IF Head(r) = "," THEN JsonElements(Tail(r), Append(items, e.v))
         ELSE IF Head(r) = "]"
              THEN JsonOk(PyList(Append(items, e.v)), Tail(r))
         ELSE JsonError

\* text is at the start of an object member, d maps the members before it;
\* a repeated key keeps its last value
JsonMembers(text, d) ==
    LET s == JsonSkip(text) IN
    IF s = <<>> \/ Head(s) # "\"" THEN JsonError
    ELSE LET k == JsonString(Tail(s)) IN
         IF ~k.ok THEN JsonError
         ELSE LET c == JsonSkip(k.rest) IN
              IF c = <<>> \/ Head(c) # ":" THEN JsonError
              ELSE LET e == JsonValue(Tail(c)) IN
                   IF ~e.ok THEN JsonError
                   ELSE LET r == JsonSkip(e.rest)
                            d2 == (k.v.s :> e.v) @@ d IN
                        IF r = <<>> THEN JsonError
                        ELSE IF Head(r) = "," THEN JsonMembers(Tail(r), d2)
                        ELSE IF Head(r) = "}"
                             THEN JsonOk(PyDict(d2), Tail(r))
                        ELSE JsonError

\* json.loads(clean): the parsed value, or JSONDecodeError
json_loads(clean) ==
    LET r == JsonValue(clean) IN
    IF r.ok /\ JsonSkip(r.rest) = <<>> THEN r ELSE JsonError

\* the keys of the insight the prompt asks for
TopIssues == <<"t", "o", "p", "_", "i", "s", "s", "u", "e", "s">>

TopPraises == <<"t", "o", "p", "_", "p", "r", "a", "i", "s", "e", "s">>

ProductBreakdown == <<"p", "r", "o", "d", "u", "c", "t", "_", "b", "r", "e", "a", "k",
      "d", "o", "w", "n">>

PriorityActions == <<"p", "r", "i", "o", "r", "i", "t", "y", "_", "a", "c", "t", "i",
      "o", "n", "s">>

OverallSummary == <<"o", "v", "e", "r", "a", "l", "l", "_", "s", "u", "m", "m", "a",
      "r", "y">>

NoProcessedReviews ==
    <<"N", "o", " ", "p", "r", "o", "c", "e", "s", "s", "e", "d", " ",
      "r", "e", "v", "i", "e", "w", "s", " ", "a", "v", "a", "i",
      "l", "a", "b", "l", "e", " ", "y", "e", "t", ".">>

UnableToGenerate ==
    <<"U", "n", "a", "b", "l", "e", " ", "t", "o", " ", "g", "e", "n",
      "e", "r", "a", "t", "e", " ", "i", "n", "s", "i", "g", "h",
      "t", "s", " ", "a", "t", " ", "t", "h", "i", "s", " ", "t",
      "i", "m", "e">>

RetryLater == <<"R", "e", "t", "r", "y", " ", "i", "n", "s", "i", "g", "h", "t",
      " ", "g", "e", "n", "e", "r", "a", "t", "i", "o", "n", " ",
      "l", "a", "t", "e", "r">>

EncounteredAnError ==
    <<"I", "n", "s", "i", "g", "h", "t", " ", "g", "e", "n", "e", "r",
      "a", "t", "i", "o", "n", " ", "e", "n", "c", "o", "u", "n",
      "t", "e", "r", "e", "d", " ", "a", "n", " ", "e", "r", "r",
      "o", "r", ".", " ", "P", "l", "e", "a", "s", "e", " ", "t",
      "r", "y", " ", "a", "g", "a", "i", "n", ".">>

\* the insight returned when the tenant has no processed review
EmptyInsight(company_id, generated_at) ==
    [company_id |-> company_id,
     top_issues |-> PyList(<<>>),
     top_praises |-> PyList(<<>>),
     product_breakdown |-> PyDict(NoItems),
     priority_actions |-> PyList(<<>>),
     overall_summary |-> PyStr(NoProcessedReviews),
     generated_at |-> generated_at,
     review_count_analyzed |-> 0]

\* the parsed value the except clause substitutes
ErrorInsight ==
    PyDict(TopIssues :> PyList(<<PyStr(UnableToGenerate)>>)
           @@ TopPraises :> PyList(<<>>)
           @@ ProductBreakdown :> PyDict(NoItems)
           @@ PriorityActions :> PyList(<<PyStr(RetryLater)>>)
           @@ OverallSummary :> PyStr(EncounteredAnError))

\* parsed.get(key, default)
Get(parsed, key, default) ==
    IF key \in DOMAIN parsed.d THEN parsed.d[key] ELSE default

\* insight_doc
InsightDoc(company_id, parsed, generated_at, reviews) ==
    [company_id |-> company_id,
     top_issues |-> Get(parsed, TopIssues, PyList(<<>>)),
     top_praises |-> Get(parsed, TopPraises, PyList(<<>>)),
     product_breakdown |-> Get(parsed, ProductBreakdown, PyDict(NoItems)),
     priority_actions |-> Get(parsed, PriorityActions, PyList(<<>>)),
     overall_summary |-> Get(parsed, OverallSummary, PyStr(<<>>)),
     generated_at |-> generated_at,
     review_count_analyzed |-> Len(reviews)]

\* list[str]
IsListOfStr(v) ==
    v.t = "list" /\ \A k \in 1..Len(v.items) : v.items[k].t = "str"

\* dict[str, dict]
IsDictOfDict(v) ==
    v.t = "dict" /\ \A key \in DOMAIN v.d : v.d[key].t = "dict"

\* InsightResponse(**doc) validates
ValidInsightResponse(doc) ==
    /\ IsListOfStr(doc.top_issues)
    /\ IsListOfStr(doc.top_praises)
    /\ IsDictOfDict(doc.product_breakdown)
    /\ IsListOfStr(doc.priority_actions)
    /\ doc.overall_summary.t = "str"

\* Raw contents the provider may answer the insight prompt with: the object it
\* was asked for inside a code fence, a refusal, JSON that is not an object,
\* and an object whose top_issues is a string.
FencedInsight ==
    <<Backtick, Backtick, Backtick, "j", "s", "o", "n", "\n", "{", "\"",
      "t", "o", "p", "_", "i", "s", "s", "u", "e", "s", "\"", ":",
      " ", "[", "\"", "l", "a", "t", "e", "\"", "]", ",", " ", "\"",
      "p", "r", "o", "d", "u", "c", "t", "_", "b", "r", "e", "a",
      "k", "d", "o", "w", "n", "\"", ":", " ", "{", "\"", "a", "p",
      "p", "\"", ":", " ", "{", "\"", "p", "o", "s", "i", "t", "i",
      "v", "e", "\"", ":", " ", "0", "}", "}", "}", "\n", Backtick,
      Backtick, Backtick, "\n">>

Refusal == <<"S", "o", "r", "r", "y", ",", " ", "I", " ", "c", "a", "n", "n",
      "o", "t", " ", "h", "e", "l", "p", ".">>

JsonArray == <<" ", "[", "]", " ">>

StringForList == <<"{", "\"", "t", "o", "p", "_", "i", "s", "s", "u", "e", "s", "\"",
      ":", " ", "\"", "l", "a", "t", "e", "\"", "}">>

InsightContents == {FencedInsight, Refusal, JsonArray, StringForList}

\* find({"company_id": company_id, "processed": True}): the matching ids
ProcessedOf(coll, company_id) ==
    { id \in DOMAIN coll :
        coll[id].company_id = company_id /\ coll[id].processed }

\* mutant of SortLimit: the sort is ascending
SortLimitOldestFirst(coll, ids, limit) ==
    LET length == Min2(Cardinality(ids), limit) IN
    { reviews \in [1..length -> ids] :
        /\ \A j, k \in 1..length : j # k => reviews[j] # reviews[k]
        /\ \A j, k \in 1..length :
              j < k => coll[reviews[j]].created_at <= coll[reviews[k]].created_at
        /\ \A id \in ids \ { reviews[k] : k \in 1..length } :
              \A k \in 1..length :
                 coll[id].created_at >= coll[reviews[k]].created_at }

\* .sort("created_at", -1).limit(limit), to_list(length=limit): the newest of
\* the matching documents, newest first, documents created at the same time
\* in whatever order the store returns them
SortLimit(coll, ids, limit) ==
    LET length == Min2(Cardinality(ids), limit) IN
    { reviews \in [1..length -> ids] :
        /\ \A j, k \in 1..length : j # k => reviews[j] # reviews[k]
        /\ \A j, k \in 1..length :
              j < k => coll[reviews[j]].created_at >= coll[reviews[k]].created_at
        /\ \A id \in ids \ { reviews[k] : k \in 1..length } :
              \A k \in 1..length :
                 coll[id].created_at <= coll[reviews[k]].created_at }

\* find({"company_id": company_id}) on db.insights: the matching ids
InsightsOf(coll, company_id) ==
    { id \in DOMAIN coll : coll[id].company_id = company_id }

\* the document find_one / update_one settle on: one of the matching ones, or
\* none when nothing matches
Matches(ids, id) == IF ids = {} THEN id = NoSuchId ELSE id \in ids

\* sentiment, category, product and search of get_all_feedback
NoFilters ==
    [sentiment |-> None, category |-> None, product |-> None, search |-> None]

\* a request slot before its request: the arguments of the operation, its
\* locals and its response
GenIdle ==
    [pc |-> "idle", op |-> "", company_id |-> "", refresh |-> FALSE,
     limit |-> 0, skip |-> 0, filters |-> NoFilters, reviews |-> <<>>, insight_doc |-> None, matched |-> NoSuchId,
     llm_calls |-> 0, reply |-> Pending, result |-> None, raised |-> "",
     status |-> 0, cached |-> NoSuchId, written |-> NoSuchId]

\* mutant of GetInsights: the cache is looked in whatever refresh is
GetInsightsIgnoresRefresh(r, company_id, refresh) ==
    /\ gen[r].pc = "idle"
    /\ gen' = [gen EXCEPT ![r] =
                 [GenIdle EXCEPT !.pc = "find_one",
                                 !.op = "get_insights",
                                 !.company_id = company_id,
                                 !.refresh = refresh,
                                 !.limit = DefaultLimit]]
    /\ UNCHANGED <<limiter, call, feedbacks, now, scheduled, inv, response, batch,
                   insights>>

\* GET /admin/insights?refresh=...: the router looks in the cache unless a
\* refresh is asked for
GetInsights(r, company_id, refresh) ==
    /\ gen[r].pc = "idle"
    /\ gen' = [gen EXCEPT ![r] =
                 [GenIdle EXCEPT !.pc = IF refresh THEN "find" ELSE "find_one",
                                 !.op = "get_insights",
                                 !.company_id = company_id,
                                 !.refresh = refresh,
                                 !.limit = DefaultLimit]]
    /\ UNCHANGED <<limiter, call, feedbacks, now, scheduled, inv, response, batch,
                   insights>>

\* generate_insights(company_id, ctx, limit) called on its own
GenerateInsights(r, company_id, limit) ==
    /\ gen[r].pc = "idle"
    /\ gen' = [gen EXCEPT ![r] =
                 [GenIdle EXCEPT !.pc = "find",
                                 !.op = "generate_insights",
                                 !.company_id = company_id,
                                 !.limit = limit]]
    /\ UNCHANGED <<limiter, call, feedbacks, now, scheduled, inv, response, batch,
                   insights>>

\* the response of the router: InsightResponse(**doc), or the 500 of the
\* general exception handler when doc does not validate
Respond(g, doc) ==
    IF g.op # "get_insights" THEN [g EXCEPT !.pc = "done", !.result = Some(doc)]
    ELSE IF ValidInsightResponse(doc)
         THEN [g EXCEPT !.pc = "done", !.result = Some(doc), !.status = 200]
         ELSE [g EXCEPT !.pc = "done", !.raised = "ValidationError",
                        !.status = 500]

\* an exception leaves generate_insights
Propagate(g, exception) ==
    [g EXCEPT !.pc = "done", !.raised = exception,
              !.status = IF g.op = "get_insights" THEN 500 ELSE 0]

\* get_cached_insights: find_one answers with the record id, or with nothing
GetCachedInsights(r, id) ==
    /\ gen[r].pc = "find_one"
    /\ Matches(InsightsOf(insights, gen[r].company_id), id)
    /\ gen' = [gen EXCEPT ![r] =
                 IF id = NoSuchId
                 THEN [@ EXCEPT !.pc = "find"]
                 ELSE Respond([@ EXCEPT !.cached = id], insights[id])]
    /\ UNCHANGED <<limiter, call, feedbacks, now, scheduled, inv, response, batch,
                   insights>>

\* mutant of FindReviews: the query does not ask for processed reviews
FindReviewsOfAnyState(r) ==
    /\ gen[r].pc = "find"
    /\ \E reviews \in SortLimit(feedbacks,
                         { id \in DOMAIN feedbacks :
                             feedbacks[id].company_id = gen[r].company_id },
                         gen[r].limit) :
       IF reviews = <<>>
       THEN /\ now' = now + 1
            /\ gen' = [gen EXCEPT ![r] =
                         [@ EXCEPT !.pc = "return",
                                   !.insight_doc =
                                      Some(EmptyInsight(gen[r].company_id, now'))]]
       ELSE /\ now' = now
            /\ gen' = [gen EXCEPT ![r] =
                         [@ EXCEPT !.pc = "call_llm", !.reviews = reviews,
                                   !.llm_calls = 1]]
    /\ UNCHANGED <<limiter, call, feedbacks, scheduled, inv, response, batch, insights>>

\* the query for recent processed reviews answers: the empty-state insight is
\* returned, or the prompt is built and _call_llm awaited
FindReviews(r) ==
    /\ gen[r].pc = "find"
    /\ \E reviews \in SortLimit(feedbacks,
                                ProcessedOf(feedbacks, gen[r].company_id),
                                gen[r].limit) :
       IF reviews = <<>>
       THEN /\ now' = now + 1
            /\ gen' = [gen EXCEPT ![r] =
                         [@ EXCEPT !.pc = "return",
                                   !.insight_doc =
                                      Some(EmptyInsight(gen[r].company_id, now'))]]
       ELSE /\ now' = now
            /\ gen' = [gen EXCEPT ![r] =
                         [@ EXCEPT !.pc = "call_llm", !.reviews = reviews,
                                   !.llm_calls = 1]]
    /\ UNCHANGED <<limiter, call, feedbacks, scheduled, inv, response, batch, insights>>

\* _call_llm settles with o.  When it raised, "import json" has not run, so
\* the except clause naming json.JSONDecodeError raises UnboundLocalError.
\* When it returned, the reply is cleaned and parsed, a JSONDecodeError is
\* replaced by the error insight, and insight_doc is built with parsed.get,
\* which a parsed value other than a dict does not have.
CallLLM(r, o) ==
    /\ gen[r].pc = "call_llm"
    /\ o \in call_llm(InsightContents)
    /\ IF o = Raised
       THEN /\ now' = now
            /\ gen' = [gen EXCEPT ![r] =
                         Propagate([@ EXCEPT !.reply = o], "UnboundLocalError")]
       ELSE LET loaded == json_loads(StripCodeFences(o[2]))
                parsed == IF loaded.ok THEN loaded.v ELSE ErrorInsight IN
            IF parsed.t # "dict"
            THEN /\ now' = now
                 /\ gen' = [gen EXCEPT ![r] =
                              Propagate([@ EXCEPT !.reply = o], "AttributeError")]
            ELSE /\ now' = now + 1
                 /\ gen' = [gen EXCEPT ![r] =
                              [@ EXCEPT !.pc = "update_one", !.reply = o,
                                        !.insight_doc =
                                           Some(InsightDoc(gen[r].company_id, parsed,
                                                           now', gen[r].reviews))]]
    /\ UNCHANGED <<limiter, call, feedbacks, scheduled, inv, response, batch, insights>>

\* update_one({"company_id": company_id}, ..., upsert=True) looks for the
\* tenant's record.  db.insights has no unique index on company_id, so the
\* store does not make the lookup and the insert of an upsert one step.
UpsertFind(r, id) ==
    /\ gen[r].pc = "update_one"
    /\ Matches(InsightsOf(insights, gen[r].company_id), id)
    /\ gen' = [gen EXCEPT ![r] = [@ EXCEPT !.pc = "upsert", !.matched = id]]
    /\ UNCHANGED <<limiter, call, feedbacks, now, scheduled, inv, response, batch,
                   insights>>

\* the upsert writes: $set on the record found, or the insert of a new one
UpsertWrite(r) ==
    /\ gen[r].pc = "upsert"
    /\ LET doc == gen[r].insight_doc[1]
           id == IF gen[r].matched = NoSuchId
                 THEN Len(insights) + 1 ELSE gen[r].matched IN
       /\ insights' = IF gen[r].matched = NoSuchId
                      THEN Append(insights, doc)
                      ELSE [insights EXCEPT ![id] = doc]
       /\ gen' = [gen EXCEPT ![r] = [@ EXCEPT !.pc = "return", !.written = id]]
    /\ UNCHANGED <<limiter, call, feedbacks, now, scheduled, inv, response, batch>>

\* generate_insights returns insight_doc
ReturnInsight(r) ==
    /\ gen[r].pc = "return"
    /\ gen' = [gen EXCEPT ![r] = Respond(@, @.insight_doc[1])]
    /\ UNCHANGED <<limiter, call, feedbacks, now, scheduled, inv, response, batch,
                   insights>>

\* the steps of a request once it has been received
Insight(r) ==
    \/ \E id \in DOMAIN insights \cup {NoSuchId} : GetCachedInsights(r, id)
    \/ FindReviews(r)
    \/ \E o \in call_llm(InsightContents) : CallLLM(r, o)
    \/ \E id \in DOMAIN insights \cup {NoSuchId} : UpsertFind(r, id)
    \/ UpsertWrite(r)
    \/ ReturnInsight(r)

-----------------------------------------------------------------------------
(* SpecAggregate: one insight request on stores that intake and enrichment  *)
(* have filled for two tenants                                              *)

\* the k-th document of a store: a review of company_id, processed or not
StoredReview(company_id, processed, k, processed_at) ==
    IF processed THEN ProcessedReview(company_id, k, processed_at)
    ELSE PendingReview(company_id, k)

InsightStores ==
    { [k \in 1..Len(kinds) |->
         StoredReview(kinds[k][1], kinds[k][2], k, Len(kinds) + k)] :
        kinds \in UNION { [1..n -> Companies \X BOOLEAN] : n \in 0..MaxReviews } }

\* the windows a caller passes
Limits == {1, 2, DefaultLimit}

AggregateRequests == {"req1"}

InitAggregate ==
    /\ call = CallIdle
    /\ feedbacks \in InsightStores
    /\ now = 2 * Len(feedbacks)
    /\ scheduled = EmptyBag
    /\ inv = [t \in Workers |-> InvIdle]
    /\ response = NoResponse
    /\ batch = BatchIdle
    /\ insights = <<>>
    /\ gen = [r \in AggregateRequests |-> GenIdle]
    /\ limiter = LimiterIdle

NextAggregate ==
    \/ \E r \in DOMAIN gen, c \in Companies, refresh \in BOOLEAN :
          GetInsights(r, c, refresh)
    \/ \E r \in DOMAIN gen, c \in Companies, limit \in Limits :
          GenerateInsights(r, c, limit)
    \/ \E r \in DOMAIN gen : Insight(r)

SpecAggregate == InitAggregate /\ [][NextAggregate]_vars

-----------------------------------------------------------------------------
(* SpecCache: two insight requests, one after the other or concurrent, of   *)
(* one tenant or of two                                                     *)

CacheRequests == {"req1", "req2"}

\* acme has a processed review; globex has one too, or one still pending
CacheStores ==
    { << ProcessedReview("acme", 1, 3), StoredReview("globex", processed, 2, 4) >> :
        processed \in BOOLEAN }

InitCache ==
    /\ call = CallIdle
    /\ feedbacks \in CacheStores
    /\ now = 2 * Len(feedbacks)
    /\ scheduled = EmptyBag
    /\ inv = [t \in Workers |-> InvIdle]
    /\ response = NoResponse
    /\ batch = BatchIdle
    /\ insights = <<>>
    /\ gen = [r \in CacheRequests |-> GenIdle]
    /\ limiter = LimiterIdle

NextCache ==
    \/ \E r \in DOMAIN gen, c \in Companies, refresh \in BOOLEAN :
          GetInsights(r, c, refresh)
    \/ \E r \in DOMAIN gen : Insight(r)

SpecCache == InitCache /\ [][NextCache]_vars

-----------------------------------------------------------------------------
(* SpecLive: submit_review and the background enrichment of what it stored, *)
(* on a store that answers every read and write of enrich_feedback, under a *)
(* fair event loop                                                          *)

\* a step of the background: a queued task starts, or the running
\* enrich_feedback call moves on, its gather taken as one step
Background ==
    \/ \E t \in Workers, id \in 1..MaxReviews : RunScheduled(t, id)
    \/ \E t \in Workers : FindOne(t)
    \/ \E t \in Workers, results \in GatherOutcomes : GatherSettles(t, results)
    \/ \E t \in Workers : UpdateOne(t)
    \/ \E t \in Workers : Return(t)

NextLive ==
    \/ \E c \in Companies, d \in ReviewSubmits,
          r \in call_llm(UserReplyContents), ok \in BOOLEAN :
          SubmitReview(c, d, r, ok)
    \/ Background

\* the event loop runs a background task whenever one can take a step, and
\* every _call_llm settles
SpecLive == Init /\ [][NextLive]_vars /\ WF_vars(Background)

-----------------------------------------------------------------------------
(* The admin's views of the reviews: get_all_feedback and get_analytics     *)

\* limit: int = 100
DefaultPageSize == 100

\* if <filter>: a filter that is None or empty is not applied
Applied(filter) == filter # None /\ filter[1] # <<>>

Lower(s) == [i \in 1..Len(s) |-> ToLower(s[i])]

\* {"$regex": search, "$options": "i"} for a search without metacharacters:
\* the text contains it, whatever the case
Contains(text, search) ==
    \E i \in 0..(Len(text) - Len(search)) :
       SubSeq(Lower(text), i + 1, i + Len(search)) = Lower(search)

\* mutant of FeedbackQuery: the query is not scoped to the company
FeedbackQueryUnscoped(coll, company_id, filters) ==
    { id \in DOMAIN coll :
        /\ Applied(filters.sentiment) => coll[id].sentiment = filters.sentiment
        /\ Applied(filters.category) => coll[id].category = filters.category
        /\ Applied(filters.product) => coll[id].product = filters.product
        /\ Applied(filters.search) =>
              Contains(coll[id].review, filters.search[1]) }

\* collection.find(query): the ids of the documents the query matches
FeedbackQuery(coll, company_id, filters) ==
    { id \in DOMAIN coll :
        /\ coll[id].company_id = company_id
        /\ Applied(filters.sentiment) => coll[id].sentiment = filters.sentiment
        /\ Applied(filters.category) => coll[id].category = filters.category
        /\ Applied(filters.product) => coll[id].product = filters.product
        /\ Applied(filters.search) =>
              Contains(coll[id].review, filters.search[1]) }

\* .sort("created_at", -1).skip(skip).limit(limit), to_list(length=limit)
SortSkipLimit(coll, ids, skip, limit) ==
    { SubSeq(sorted, skip + 1, Min2(Len(sorted), skip + limit)) :
        sorted \in SortLimit(coll, ids, Cardinality(ids)) }

\* AdminFeedbackResponse(**fb) once _id is a string and company_id is popped
AdminFeedbackResponse(id, fb) ==
    [id |-> id, rating |-> fb.rating, review |-> fb.review,
     product |-> fb.product, category |-> fb.category,
     ai_response |-> fb.ai_response, ai_summary |-> fb.ai_summary,
     ai_actions |-> fb.ai_actions, sentiment |-> fb.sentiment,
     source |-> fb.source, processed |-> fb.processed,
     created_at |-> fb.created_at, processed_at |-> fb.processed_at]

\* the lists get_all_feedback can return
get_all_feedback(coll, company_id, limit, skip, filters) ==
    { [k \in 1..Len(page) |-> AdminFeedbackResponse(page[k], coll[page[k]])] :
        page \in SortSkipLimit(coll, FeedbackQuery(coll, company_id, filters),
                               skip, limit) }

RECURSIVE SumRatings(_, _)
\* {"$avg": "$rating"}: the sum of the ratings of ids
SumRatings(coll, ids) ==
    IF ids = {} THEN 0
    ELSE LET id == CHOOSE x \in ids : TRUE IN
         coll[id].rating[1] + SumRatings(coll, ids \ {id})

\* round(total / count, 2), in hundredths (a tie goes to the even neighbour)
RoundedAverage(total, count) ==
    LET hundredths == (100 * total) \div count
        rest == (100 * total) % count IN
    IF 2 * rest > count \/ (2 * rest = count /\ hundredths % 2 = 1)
    THEN hundredths + 1 ELSE hundredths

\* {"$group": {"_id": "$field", "count": {"$sum": 1}}} over the documents that
\* have the field, kept when the key is truthy
Distribution(coll, ids, field) ==
    LET having == { id \in ids : Applied(coll[id][field]) } IN
    [key \in { coll[id][field][1] : id \in having } |->
        Cardinality({ id \in having : coll[id][field][1] = key })]

\* str(item["_id"]) of a rating
RatingKey(rating) == <<Digits[rating + 1]>>

\* the AnalyticsResponse of get_analytics
get_analytics(coll, company_id) ==
    LET ids == { id \in DOMAIN coll : coll[id].company_id = company_id }
        rated == { id \in ids : coll[id].rating # None }
        rating(id) == coll[id].rating[1]
        latest == { id \in ids :
                      \A other \in ids :
                         coll[other].created_at <= coll[id].created_at }
        total == Cardinality(ids)
    IN  [total_feedback |-> total,
         average_rating |->
            IF rated = {} THEN None
            ELSE Some(RoundedAverage(SumRatings(coll, rated), Cardinality(rated))),
         rating_distribution |->
            [key \in { RatingKey(rating(id)) : id \in rated } |->
                Cardinality({ id \in rated : RatingKey(rating(id)) = key })],
         sentiment_breakdown |-> Distribution(coll, ids, "sentiment"),
         category_distribution |-> Distribution(coll, ids, "category"),
         product_distribution |-> Distribution(coll, ids, "product"),
         latest_submission |->
            IF latest = {} THEN None
            ELSE Some(coll[CHOOSE id \in latest : TRUE].created_at),
         processing_stats |->
            [processed |-> Cardinality({ id \in ids : coll[id].processed }),
             pending |-> Cardinality({ id \in ids : coll[id].processed = FALSE }),
             total |-> total]]

\* GET /admin/feedbacks: the page is returned, or DatabaseError when the store
\* fails
GetAllFeedback(r, company_id, limit, skip, filters, find_ok) ==
    /\ gen[r].pc = "idle"
    /\ \E page \in get_all_feedback(feedbacks, company_id, limit, skip, filters) :
          gen' = [gen EXCEPT ![r] =
                    IF find_ok
                    THEN [GenIdle EXCEPT !.pc = "done",
                                         !.op = "get_all_feedback",
                                         !.company_id = company_id,
                                         !.limit = limit,
                                         !.skip = skip,
                                         !.filters = filters,
                                         !.result = Some(page),
                                         !.status = 200]
                    ELSE [GenIdle EXCEPT !.pc = "done",
                                         !.op = "get_all_feedback",
                                         !.company_id = company_id,
                                         !.limit = limit,
                                         !.skip = skip,
                                         !.filters = filters,
                                         !.raised = "DatabaseError",
                                         !.status = 500]]
    /\ UNCHANGED <<limiter, call, feedbacks, now, scheduled, inv, response, batch,
                   insights>>

\* GET /admin/analytics
GetAnalytics(r, company_id, aggregate_ok) ==
    /\ gen[r].pc = "idle"
    /\ gen' = [gen EXCEPT ![r] =
                 IF aggregate_ok
                 THEN [GenIdle EXCEPT !.pc = "done",
                                      !.op = "get_analytics",
                                      !.company_id = company_id,
                                      !.result =
                                         Some(get_analytics(feedbacks, company_id)),
                                      !.status = 200]
                 ELSE [GenIdle EXCEPT !.pc = "done",
                                      !.op = "get_analytics",
                                      !.company_id = company_id,
                                      !.raised = "DatabaseError",
                                      !.status = 500]]
    /\ UNCHANGED <<limiter, call, feedbacks, now, scheduled, inv, response, batch,
                   insights>>

-----------------------------------------------------------------------------
(* SpecTenant: the tenant-scoped operations of two tenants' admins, one at  *)
(* a time, on stores that hold rated reviews of both, processed or not      *)

\* the k-th document of a store: a rated review of company_id
RatedReview(company_id, processed, k, processed_at) ==
    LET imported == ImportedDocument(company_id, LongReview, Some(k + 2), None,
                                     "import_csv", k) IN
    IF processed
    THEN EnrichmentFields(imported, [a \in Analyses |-> Raised], processed_at)
    ELSE imported

TenantStores ==
    { [k \in 1..Len(kinds) |->
         RatedReview(kinds[k][1], kinds[k][2], k, Len(kinds) + k)] :
        kinds \in UNION { [1..n -> Companies \X BOOLEAN] : n \in 0..MaxReviews } }

\* the pages an admin asks for
PageSizes == {1, DefaultPageSize}

Skips == {0, 1}

FeedbackFilters ==
    { NoFilters,
      [NoFilters EXCEPT !.sentiment = Some(Unknown)],
      [NoFilters EXCEPT !.search = Some(<<"S", "H", "I", "P">>)] }

TenantRequests == {"req1"}

\* what the gather of a batch's enrichment returns: the provider is down, or
\* up with one reply to each analysis
TenantOutcomes ==
    { [a \in Analyses |-> Raised],
      CHOOSE results \in GatherOutcomes : results.sentiment # Raised }

InitTenant ==
    /\ call = CallIdle
    /\ feedbacks \in TenantStores
    /\ now = 2 * Len(feedbacks)
    /\ scheduled = EmptyBag
    /\ inv = [t \in BatchSlots |-> InvIdle]
    /\ response = NoResponse
    /\ batch = BatchIdle
    /\ insights = <<>>
    /\ gen = [r \in TenantRequests |-> GenIdle]
    /\ limiter = LimiterIdle

\* no batch pass is running: none was started, or the one started has returned
NoBatch == batch.pc \in {"idle", "done"}

\* no request has been made
NoRequest == \A r \in DOMAIN gen : gen[r].pc = "idle"

NextTenant ==
    \/ \E r \in DOMAIN gen, c \in Companies, limit \in PageSizes,
          skip \in Skips, filters \in FeedbackFilters, ok \in BOOLEAN :
          NoBatch /\ GetAllFeedback(r, c, limit, skip, filters, ok)
    \/ \E r \in DOMAIN gen, c \in Companies, ok \in BOOLEAN :
          NoBatch /\ GetAnalytics(r, c, ok)
    \/ \E r \in DOMAIN gen, c \in Companies, refresh \in BOOLEAN :
          NoBatch /\ GetInsights(r, c, refresh)
    \/ \E r \in DOMAIN gen, c \in Companies :
          NoBatch /\ GenerateInsights(r, c, 1)
    \/ \E r \in DOMAIN gen : Insight(r)
    \/ \E c \in Companies, b \in {1, RouterBatchSize} :
          \E docs \in CursorToList(Unprocessed(feedbacks, c), b) :
             NoRequest /\ EnrichUnprocessed(c, b, TRUE, docs)
    \/ BatchCall \/ BatchAwaitReturns \/ BatchWake \/ BatchReturns
    \/ \E t \in BatchSlots :
          \/ FindOne(t)
          \/ \E results \in TenantOutcomes : GatherSettles(t, results)
          \/ UpdateOne(t)

SpecTenant == InitTenant /\ [][NextTenant]_vars

-----------------------------------------------------------------------------
(* SpecPipeline: intake, the imports, the background worker, the batch pass *)
(* and the insight of one tenant, interleaved on one store                  *)

PipelineRequests == {"req1"}

\* the provider's answers to the insight prompt: a fenced insight, or a failure
PipelineInsightReplies ==
    { r \in call_llm({FencedInsight}) : TRUE }

InitPipeline ==
    /\ call = CallIdle
    /\ feedbacks = <<>>
    /\ now = 0
    /\ scheduled = EmptyBag
    /\ inv = [t \in Workers \cup BatchSlots |-> InvIdle]
    /\ response = NoResponse
    /\ batch = BatchIdle
    /\ insights = <<>>
    /\ gen = [r \in PipelineRequests |-> GenIdle]
    /\ limiter = LimiterIdle

\* the store and the provider answer the intake endpoints; the enrichment
\* runs with the provider up or down; one insight is asked for
NextPipeline ==
    \/ \E c \in TriggerCompanies, d \in ReviewSubmits,
          r \in call_llm(UserReplyContents) \ {Raised} :
          SubmitReview(c, d, r, TRUE)
    \/ \E c \in TriggerCompanies : ImportCsv(c, <<[review |-> LongReview, rating |-> [k |-> "num", tenths |-> 47]]>>, TRUE)
    \/ \E c \in TriggerCompanies : ImportPdf(c, <<LongReview>>, TRUE)
    \/ \E t \in Workers, id \in 1..MaxReviews : RunScheduled(t, id)
    \/ \E c \in TriggerCompanies :
          \E docs \in CursorToList(Unprocessed(feedbacks, c), RouterBatchSize) :
             RunScheduledBatch(c, docs)
    \/ Batch
    \/ \E t \in DOMAIN inv :
          \/ FindOne(t)
          \/ \E results \in TenantOutcomes : GatherSettles(t, results)
          \/ UpdateOne(t)
    \/ \E t \in Workers : Return(t)
    \/ \E r \in DOMAIN gen, c \in TriggerCompanies :
          GenerateInsights(r, c, DefaultLimit)
    \/ \E r \in DOMAIN gen :
          \/ FindReviews(r)
          \/ \E o \in PipelineInsightReplies : CallLLM(r, o)
          \/ \E id \in DOMAIN insights \cup {NoSuchId} : UpsertFind(r, id)
          \/ UpsertWrite(r)
          \/ ReturnInsight(r)

SpecPipeline == InitPipeline /\ [][NextPipeline]_vars

-----------------------------------------------------------------------------
(* enrich_feedback with the provider attempts of its four analyses: each    *)
(* gathered coroutine is one _call_llm under @retry                         *)

\* what the provider may answer to the prompt of analysis a
AnalysisContents(a) ==
    CASE a = "summary"   -> SummaryContents
      [] a = "actions"   -> ActionContents
      [] a = "sentiment" -> SentimentContents
      [] a = "category"  -> CategoryContents

\* what analysis a returns once its _call_llm returned text
AnalysisValue(a, text) ==
    CASE a = "sentiment" -> NormaliseSentiment(text)
      [] a = "category"  -> NormaliseCategory(text)
      [] OTHER           -> text

\* the coroutine of analysis a starts: its _call_llm makes the first attempt
AnalysisStarts(t, a) ==
    /\ inv[t].pc = "gather"
    /\ inv[t].calls[a].pc = "idle"
    /\ inv' = [inv EXCEPT ![t].calls[a] =
                 [@ EXCEPT !.pc = "attempt", !.attempt_number = 1]]
    /\ UNCHANGED <<limiter, insights, gen, call, feedbacks, now, scheduled, batch, response>>

\* every way an attempt of analysis a can succeed: the content the provider
\* answers, what _call_llm returns for it and what the analysis makes of it
AnalysisReplies ==
    [a \in Analyses |->
        { [content |-> c, returned |-> Strip(c),
           value |-> AnalysisValue(a, Strip(c))] : c \in AnalysisContents(a) }]

\* an attempt of analysis a gets the text of reply: _call_llm returns it
\* stripped and the analysis settles
AnalysisAttemptReturns(t, a, reply) ==
    /\ inv[t].pc = "gather"
    /\ inv[t].calls[a].pc = "attempt"
    /\ inv' = [inv EXCEPT
                 ![t].calls[a] =
                     [@ EXCEPT !.pc = "returned",
                               !.outcomes = Append(@, <<"text", reply.content>>),
                               !.result = Some(reply.returned)],
                 ![t].results[a] = Returned(reply.value)]
    /\ UNCHANGED <<limiter, insights, gen, call, feedbacks, now, scheduled, batch, response>>

\* an attempt of analysis a fails with e: the wrapper sleeps before the next
\* attempt, or re-raises when the attempts are used up and the analysis
\* settles with the exception
AnalysisAttemptRaises(t, a, e) ==
    LET after == AfterFailure(inv[t].calls[a], LLMServiceError(e)) IN
    /\ inv[t].pc = "gather"
    /\ inv[t].calls[a].pc = "attempt"
    /\ inv' = [inv EXCEPT
                 ![t].calls[a] = after,
                 ![t].results[a] = IF after.pc = "raised" THEN Raised ELSE Pending]
    /\ UNCHANGED <<limiter, insights, gen, call, feedbacks, now, scheduled, batch, response>>

\* the backoff sleep of analysis a is over: its next attempt
AnalysisRetries(t, a) ==
    /\ inv[t].pc = "gather"
    /\ inv[t].calls[a].pc = "sleep"
    /\ inv' = [inv EXCEPT ![t].calls[a] =
                 [@ EXCEPT !.pc = "attempt", !.attempt_number = @ + 1]]
    /\ UNCHANGED <<limiter, insights, gen, call, feedbacks, now, scheduled, batch, response>>

-----------------------------------------------------------------------------
(* SpecAttempts: enrich_feedback invocations on one review, every provider  *)
(* attempt free to return or raise, every pending step eventually taken     *)

AttemptTasks == {"task1"}

\* what a failing attempt raises
AttemptErrors == {"timeout"}

\* the steps of an invocation once it has been called
AttemptSteps(t) ==
    \/ FindOne(t)
    \/ FindOneRaises(t)
    \/ \E a \in Analyses : AnalysisStarts(t, a)
    \/ \E a \in Analyses : \E reply \in AnalysisReplies[a] :
          AnalysisAttemptReturns(t, a, reply)
    \/ \E a \in Analyses, e \in AttemptErrors : AnalysisAttemptRaises(t, a, e)
    \/ \E a \in Analyses : AnalysisRetries(t, a)
    \/ UpdateOne(t)
    \/ UpdateOneRaises(t)

InitAttempts ==
    /\ call = CallIdle
    /\ feedbacks \in EnrichStores
    /\ now = Len(feedbacks)
    /\ scheduled = EmptyBag
    /\ inv = [t \in AttemptTasks |-> InvIdle]
    /\ response = NoResponse
    /\ batch = BatchIdle
    /\ insights = <<>>
    /\ gen = NoRequests
    /\ limiter = LimiterIdle

NextAttempts ==
    \/ \E t \in DOMAIN inv, id \in 0..Len(feedbacks) : Invoke(t, id)
    \/ \E t \in DOMAIN inv : AttemptSteps(t)
    \/ \E t \in DOMAIN inv : Return(t)

\* each provider attempt eventually returns or raises, each sleep ends, and
\* the store answers
SpecAttempts ==
    InitAttempts /\ [][NextAttempts]_vars
                 /\ \A t \in AttemptTasks : WF_vars(AttemptSteps(t))

-----------------------------------------------------------------------------
(* SpecCategory: enrich_feedback invocations whose category prompt gets     *)
(* plain, quoted, padded and over-long labels                               *)

\* a label longer than the stored category may be
LongCategory == [i \in 1..(CategoryMaxLen + 2) |-> IF i % 9 = 0 THEN " " ELSE "x"]

\* what the provider may answer to the category prompt
CategoryReplyContents ==
    { <<"P", "r", "i", "c", "i", "n", "g">>,
      <<"\"", "D", "e", "l", "i", "v", "e", "r", "y", "\"">>,
      <<" ", "'", "U", "X", "'", "\n">>,
      <<"'", "\"", "S", "a", "f", "e", "t", "y", "\"", "'">>,
      <<"\"", "U", "X", " ", "\"">>,
      LongCategory }

CategoryReplies ==
    { [content |-> c, returned |-> Strip(c),
       value |-> AnalysisValue("category", Strip(c))] : c \in CategoryReplyContents }

\* the other three analyses succeed at their first attempt, the category call
\* is followed through its attempts
CategorySteps(t) ==
    \/ FindOne(t)
    \/ \E a \in Analyses : AnalysisStarts(t, a)
    \/ \E a \in Analyses \ {"category"} : \E reply \in AnalysisReplies[a] :
          AnalysisAttemptReturns(t, a, reply)
    \/ \E reply \in CategoryReplies : AnalysisAttemptReturns(t, "category", reply)
    \/ \E e \in AttemptErrors : AnalysisAttemptRaises(t, "category", e)
    \/ AnalysisRetries(t, "category")
    \/ UpdateOne(t)

NextCategory ==
    \/ \E t \in DOMAIN inv, id \in 1..Len(feedbacks) : Invoke(t, id)
    \/ \E t \in DOMAIN inv : CategorySteps(t)
    \/ \E t \in DOMAIN inv : Return(t)

SpecCategory == InitAttempts /\ [][NextCategory]_vars

-----------------------------------------------------------------------------
(* SpecRating: the three intake paths with every kind of rating a client or *)
(* a file can carry                                                          *)

\* review: str = Field(..., min_length=10, max_length=2000)
ReviewMinLength == 10
ReviewMaxLength == 2000
\* rating: Optional[int] = Field(None, ge=1, le=5)
RatingMin == 1
RatingMax == 5

\* ReviewSubmit accepts the request body: the field constraints, then the
\* review_not_empty validator
ReviewSubmitAccepts(body) ==
    /\ Len(body.review) >= ReviewMinLength
    /\ Len(body.review) <= ReviewMaxLength
    /\ body.rating # None => (body.rating[1] >= RatingMin /\ body.rating[1] <= RatingMax)
    /\ Strip(body.review) # <<>>

\* the ReviewSubmit built from an accepted body: the validator returns v.strip()
ReviewSubmitOf(body) == [body EXCEPT !.review = Strip(@)]

\* POST /{slug}/reviews with this body: a body ReviewSubmit rejects is answered
\* 422 before the handler runs
SubmitReviewRequest(company_id, body, r) ==
    IF ReviewSubmitAccepts(body)
    THEN SubmitReview(company_id, ReviewSubmitOf(body), r, TRUE)
    ELSE /\ response' = [op |-> "submit_review", status |-> 422,
                         raised |-> "RequestValidationError"]
         /\ UNCHANGED <<limiter, insights, gen, call, feedbacks, now, scheduled, batch, inv>>

\* int(float(rating_raw)) raises OverflowError, which except ValueError does
\* not catch
RatingRaises(raw) == raw.k = "inf"

\* the row loop of import_csv raises: a row long enough to be parsed carries
\* such a rating
CsvRaises(rows) ==
    \E i \in 1..Len(rows) :
        /\ Len(Strip(rows[i].review)) >= MinReviewLen
        /\ RatingRaises(rows[i].rating)

\* import_csv on an uploaded file: an exception in the row loop is caught by
\* the outer except Exception, before insert_many
ImportCsvUpload(company_id, rows) ==
    IF CsvRaises(rows)
    THEN LET total == CHOOSE i \in 1..Len(rows) :
                        /\ Len(Strip(rows[i].review)) >= MinReviewLen
                        /\ RatingRaises(rows[i].rating)
                        /\ \A j \in 1..(i - 1) :
                              ~(/\ Len(Strip(rows[j].review)) >= MinReviewLen
                                /\ RatingRaises(rows[j].rating))
         IN /\ response' = [op |-> "import_csv", status |-> 200,
                            total_reviews |-> total, queued |-> 0,
                            failed |-> total]
            /\ UNCHANGED <<limiter, insights, gen, call, feedbacks, now, scheduled, batch, inv>>
    ELSE ImportCsv(company_id, rows, TRUE)

RatingBodies ==
    { [review |-> rv, rating |-> rt, product |-> None] :
        rv \in {LongReview, ShortReview},
        rt \in {None, Some(0), Some(1), Some(5), Some(6)} }

\* rating cells: empty, junk, nan, inf and numbers in tenths
RatingCells ==
    CsvRatings \cup
    { [k |-> "num", tenths |-> n] : n \in {0 - 10, 9, 10, 50, 59, 60} } \cup
    { [k |-> "nan"], [k |-> "inf"] }

RatingFiles ==
    { << [review |-> LongReview, rating |-> rt] >> : rt \in RatingCells } \cup
    { << [review |-> LongReview, rating |-> [k |-> "num", tenths |-> 10]],
         [review |-> rv, rating |-> rt] >> :
        rv \in {LongReview, ShortReview}, rt \in RatingCells }

InitRating ==
    /\ call = CallIdle
    /\ feedbacks = <<>>
    /\ now = 0
    /\ scheduled = EmptyBag
    /\ inv = [t \in Workers |-> InvIdle]
    /\ response = NoResponse
    /\ batch = BatchIdle
    /\ insights = <<>>
    /\ gen = NoRequests
    /\ limiter = LimiterIdle

NextRating ==
    \/ \E c \in TriggerCompanies, body \in RatingBodies,
          r \in call_llm(UserReplyContents) : SubmitReviewRequest(c, body, r)
    \/ \E c \in TriggerCompanies, rows \in RatingFiles : ImportCsvUpload(c, rows)
    \/ \E c \in TriggerCompanies, paragraphs \in PdfTexts :
          ImportPdf(c, paragraphs, TRUE)

SpecRating == InitRating /\ [][NextRating]_vars

-----------------------------------------------------------------------------
(* RateLimitMiddleware: the in-memory limiter in front of every route       *)

\* requests_per_minute (settings.RATE_LIMIT_PER_MINUTE in the running service),
\* kept small
RequestsPerMinute == 2

\* timedelta(minutes=1) in clock ticks
Minute == 3

\* the clock stops here
MaxTime == Minute + 2

\* refusals are counted up to here
MaxRefusals == 2

HTTP_429_TOO_MANY_REQUESTS == 429

HTTP_500_INTERNAL_SERVER_ERROR == 500

\* if request.url.path in ["/", "/docs", "/openapi.json", "/api/health"]
ExemptPaths == {"/", "/docs", "/openapi.json", "/api/health"}

\* _get_client_ip: the first entry of X-Forwarded-For, else the peer's host,
\* else "unknown"
get_client_ip(request) ==
    IF request.forwarded # None /\ request.forwarded[1] # <<>>
    THEN Head(request.forwarded[1])
    ELSE IF request.client # None THEN request.client[1] ELSE "unknown"

\* _cleanup_old_requests at time t: only the entries with dt > cutoff are kept
cleanup_old_requests(request_counts, ip, t) ==
    LET cutoff == t - Minute IN
    [request_counts EXCEPT ![ip] = SelectSeq(@, LAMBDA dt : dt > cutoff)]

\* if len(self.request_counts[client_ip]) >= self.requests_per_minute
RateLimitExceeded(count) == count >= RequestsPerMinute

\* the request is passed on: await call_next(request); refusals counts the
\* refusals of the client since its previous admission and oldest is the time
\* of the oldest request its record held
CallNext(request, client_ip) ==
    LET record == limiter.request_counts[client_ip]
        limited == request.path \notin ExemptPaths IN
    [op |-> "dispatch", path |-> request.path, client_ip |-> client_ip,
     passed |-> TRUE, raised |-> 0, status |-> 0,
     refusals |-> IF limited THEN limiter.refused[client_ip] ELSE 0,
     oldest |-> IF limited /\ record # <<>> THEN Head(record) ELSE now]

\* general_exception_handler answers an exception that leaves the middleware
\* stack: an exception raised in a middleware's dispatch does not pass through
\* the route-level handlers, the handler registered for Exception answers it
general_exception_handler(request, client_ip, status_code) ==
    [op |-> "dispatch", path |-> request.path, client_ip |-> client_ip,
     passed |-> FALSE, raised |-> status_code,
     status |-> HTTP_500_INTERNAL_SERVER_ERROR, refusals |-> 0,
     oldest |-> now]

\* mutant of Dispatch: the request is recorded before the limit is checked
DispatchRecordsFirst(request) ==
    LET client_ip == get_client_ip(request)
        cleaned == cleanup_old_requests(limiter.request_counts, client_ip, now)
        recorded == [cleaned EXCEPT ![client_ip] = Append(@, now)]
    IN
    /\ IF request.path \in ExemptPaths
       THEN /\ response' = CallNext(request, client_ip)
            /\ UNCHANGED limiter
       ELSE IF RateLimitExceeded(Len(cleaned[client_ip]))
            THEN /\ limiter' = [limiter EXCEPT
                                  !.request_counts = recorded,
                                  !.refused[client_ip] = Min2(@ + 1, MaxRefusals)]
                 /\ response' = general_exception_handler(
                                    request, client_ip, HTTP_429_TOO_MANY_REQUESTS)
            ELSE /\ limiter' = [limiter EXCEPT
                                  !.request_counts = recorded,
                                  !.admitted[client_ip] = Append(@, now),
                                  !.refused[client_ip] = 0]
                 /\ response' = CallNext(request, client_ip)
    /\ UNCHANGED <<insights, gen, call, feedbacks, now, scheduled, inv, batch>>

\* RateLimitMiddleware.dispatch up to call_next; nothing is awaited between
\* the cleanup, the check and the append
Dispatch(request) ==
    LET client_ip == get_client_ip(request)
        cleaned == cleanup_old_requests(limiter.request_counts, client_ip, now)
    IN
    /\ IF request.path \in ExemptPaths
       THEN /\ response' = CallNext(request, client_ip)
            /\ UNCHANGED limiter
       ELSE IF RateLimitExceeded(Len(cleaned[client_ip]))
            THEN /\ limiter' = [limiter EXCEPT
                                  !.request_counts = cleaned,
                                  !.refused[client_ip] = Min2(@ + 1, MaxRefusals)]
                 /\ response' = general_exception_handler(
                                    request, client_ip, HTTP_429_TOO_MANY_REQUESTS)
            ELSE /\ limiter' = [limiter EXCEPT
                                  !.request_counts =
                                      [cleaned EXCEPT ![client_ip] = Append(@, now)],
                                  !.admitted[client_ip] = Append(@, now),
                                  !.refused[client_ip] = 0]
                 /\ response' = CallNext(request, client_ip)
    /\ UNCHANGED <<insights, gen, call, feedbacks, now, scheduled, inv, batch>>

\* the admissions of the minute that ends at time t
WithinLastMinute(times, t) == SelectSeq(times, LAMBDA dt : t - dt < Minute)

\* time passes; request_counts is left as it is until the next request
Tick ==
    /\ now < MaxTime
    /\ now' = now + 1
    /\ limiter' = [limiter EXCEPT
                     !.admitted = [ip \in ClientIps |->
                                     WithinLastMinute(limiter.admitted[ip], now')]]
    /\ UNCHANGED <<insights, gen, call, feedbacks, scheduled, inv, response, batch>>

-----------------------------------------------------------------------------
(* SpecLimiter: requests of three clients on limited and exempt paths       *)

LimitedPath == "/api/admin/feedbacks"

\* a client behind a proxy, the same client directly, and a request without
\* header and peer, each on a limited and on an exempt path
Requests ==
    { [path |-> p, forwarded |-> s.forwarded, client |-> s.client] :
        p \in {LimitedPath, "/api/health"},
        s \in { [forwarded |-> Some(<<"10.0.0.1", "10.0.0.9">>),
                 client |-> Some("10.0.0.9")],
                [forwarded |-> None, client |-> Some("10.0.0.1")],
                [forwarded |-> None, client |-> None] } }

InitLimiter ==
    /\ call = CallIdle
    /\ feedbacks = <<>>
    /\ now = 0
    /\ scheduled = EmptyBag
    /\ inv = [t \in Workers |-> InvIdle]
    /\ response = NoResponse
    /\ batch = BatchIdle
    /\ insights = <<>>
    /\ gen = NoRequests
    /\ limiter = LimiterIdle

NextLimiter ==
    \/ \E request \in Requests : Dispatch(request)
    \/ Tick

SpecLimiter == InitLimiter /\ [][NextLimiter]_vars

-----------------------------------------------------------------------------
(* Intake and orchestrator claims *)

Unenriched(d) ==
    /\ d.processed = FALSE
    /\ d.category = None
    /\ d.ai_summary = None
    /\ d.ai_actions = None
    /\ d.sentiment = None
    /\ d.processed_at = None

\* task t performs its final update_one in this step
Updates(t) ==
    /\ inv[t].pc = "gather"
    /\ inv'[t].pc = "done"
    /\ inv'[t].outcome = "updated"

\* the update_one of task t raises in this step
UpdateFails(t) ==
    /\ inv[t].pc = "gather"
    /\ inv'[t].pc = "done"
    /\ inv'[t].outcome = "store_error"

\* C1: every document a step of intake adds to the store (create_review,
\* import_csv, import_pdf) is stored with processed = false, the four
\* enrichment fields null and no processed_at.
C1_IntakeStoresUnenriched ==
    [][\A id \in DOMAIN feedbacks' :
          id \notin DOMAIN feedbacks => Unenriched(feedbacks'[id])]_vars

\* a web submission was just answered 201 and an import has added a document,
\* both still as intake stored them
C1_Witness ==
    /\ response.op = "import_pdf"
    /\ response.queued = 1
    /\ Len(feedbacks) = 2
    /\ feedbacks[1].source = "web"
    /\ feedbacks[2].source = "import_pdf"
    /\ Unenriched(feedbacks[1])
    /\ Unenriched(feedbacks[2])

\* C2: the final write of enrich_feedback leaves its review with processed =
\* true, processed_at set and every enrichment field non-null, each field being
\* a value its analysis can return or that field's fallback, whichever analyses
\* failed.
C2_EnrichedAfterFinalWrite ==
    [][\A t \in DOMAIN inv :
          Updates(t) /\ inv[t].feedback_id \in DOMAIN feedbacks =>
             LET d == feedbacks'[inv[t].feedback_id]
                 values(a) == { Some(r[2]) : r \in AnalysisResults(a) \ {Raised} }
                                 \cup { Some(Fallback(a)) }
             IN /\ d.processed = TRUE
                /\ d.processed_at # None
                /\ d.ai_summary # None /\ d.ai_summary \in values("summary")
                /\ d.ai_actions # None /\ d.ai_actions \in values("actions")
                /\ d.sentiment # None /\ d.sentiment \in values("sentiment")
                /\ d.category # None /\ d.category \in values("category")]_vars

\* a review enriched by a run whose summary failed and whose sentiment returned
C2_Witness ==
    /\ feedbacks[1].processed
    /\ feedbacks[1].processed_at # None
    /\ feedbacks[1].ai_summary = Some(ErrorGeneratingSummary)
    /\ feedbacks[1].sentiment = Some(Positive)

\* C3: whichever of the four analyses fail, enrich_feedback never raises, the
\* update is still issued once all have settled, and it persists for each
\* failed analysis its fixed fallback and for each other one the value that
\* analysis returned, with processed = true.
C3_FallbackPerFailedAnalysis ==
    /\ [](\A t \in DOMAIN inv :
            /\ inv[t].raised = FALSE
            /\ (inv[t].pc = "gather" /\ AllSettled(inv[t].results))
                  => ENABLED UpdateOne(t))
    /\ [][\A t \in DOMAIN inv :
            Updates(t) /\ inv[t].feedback_id \in DOMAIN feedbacks =>
               LET d == feedbacks'[inv[t].feedback_id]
                   res == inv[t].results
               IN /\ d.processed = TRUE
                  /\ d.ai_summary =
                        IF res["summary"] = Raised
                        THEN Some(ErrorGeneratingSummary)
                        ELSE Some(res["summary"][2])
                  /\ d.ai_actions =
                        IF res["actions"] = Raised
                        THEN Some(ErrorGeneratingActions)
                        ELSE Some(res["actions"][2])
                  /\ d.sentiment =
                        IF res["sentiment"] = Raised
                        THEN Some(Unknown)
                        ELSE Some(res["sentiment"][2])
                  /\ d.category =
                        IF res["category"] = Raised
                        THEN Some(General)
                        ELSE Some(res["category"][2])]_vars

\* a review enriched by a run in which exactly the category analysis failed
C3_Witness ==
    /\ feedbacks[1].processed
    /\ feedbacks[1].category = Some(General)
    /\ feedbacks[1].ai_summary = Some(<<"F", "a", "s", "t", ".">>)
    /\ feedbacks[1].ai_actions = Some(<<"1", ".", " ", "S", "h", "i", "p">>)
    /\ feedbacks[1].sentiment = Some(Neutral)
    /\ \E t \in DOMAIN inv : inv[t].outcome = "updated" /\ ~inv[t].raised

\* C4: an invocation whose find_one finds no document, or a document already
\* processed, ends there: it starts no analysis call and changes nothing in
\* the store, then or later.
C4_SkipIsNoOp ==
    [][\A t \in DOMAIN inv :
          /\ ( /\ inv[t].pc = "find_one"
               /\ inv'[t] # inv[t]
               /\ \/ inv[t].feedback_id \notin DOMAIN feedbacks
                  \/ feedbacks[inv[t].feedback_id].processed )
             => /\ inv'[t].pc = "done"
                /\ inv'[t].llm_calls = 0
                /\ feedbacks' = feedbacks
          /\ ( inv[t].pc = "done" /\ inv'[t] # inv[t] )
             => /\ inv'[t] = InvIdle
                /\ feedbacks' = feedbacks]_vars

\* an invocation that found its review already processed and skipped it, and
\* one that found no document
C4_Witness ==
    /\ inv["task1"].outcome = "skipped"
    /\ inv["task1"].doc # None
    /\ inv["task1"].doc[1].processed
    /\ inv["task1"].llm_calls = 0
    /\ inv["task2"].outcome = "skipped"
    /\ inv["task2"].doc = None

\* C5 as stated: processed goes from false to true once and never back, and
\* once processed_at is written no later step writes it again.
C5_ProcessedAtWrittenOnce ==
    [][\A id \in DOMAIN feedbacks :
          /\ feedbacks[id].processed => feedbacks'[id].processed
          /\ feedbacks[id].processed_at # None =>
                feedbacks'[id].processed_at = feedbacks[id].processed_at]_vars

\* C5 as amended: processed never goes back to false; a review is written only
\* by the final update of an invocation that loaded it while it was
\* unprocessed; and an invocation that loads it once it is processed ends
\* without a write.  (Invocations that loaded it unprocessed each write.)
C5_WrittenOnlyByUnprocessedLoads ==
    [][/\ \A id \in DOMAIN feedbacks :
             /\ id \in DOMAIN feedbacks'
             /\ feedbacks[id].processed => feedbacks'[id].processed
             /\ feedbacks'[id] # feedbacks[id] =>
                   \E t \in DOMAIN inv :
                      /\ Updates(t)
                      /\ inv[t].feedback_id = id
                      /\ inv[t].doc # None
                      /\ inv[t].doc[1].processed = FALSE
       /\ \A t \in DOMAIN inv :
             ( /\ inv[t].pc = "find_one"
               /\ inv'[t] # inv[t]
               /\ inv[t].feedback_id \in DOMAIN feedbacks
               /\ feedbacks[inv[t].feedback_id].processed )
             => inv'[t].pc = "done" /\ feedbacks' = feedbacks]_vars

\* the review of the initial store (created at time 1) after two invocations
\* have written it: the second write is stamped 3
C5_Witness ==
    /\ feedbacks[1].processed
    /\ feedbacks[1].processed_at = Some(3)

\* C6: an invocation that gathers has started all four analysis calls (none
\* waits for another to settle before it is started); the store is updated by
\* an invocation only in a step taken when all four of its analyses have
\* settled, and that step ends the invocation.
C6_FanOutThenBarrier ==
    [][/\ \A t \in DOMAIN inv :
             /\ inv'[t].pc = "gather" =>
                   inv'[t].llm_calls = Cardinality(Analyses)
             /\ (inv'[t].outcome = "updated" /\ inv[t].outcome # "updated") =>
                   /\ inv[t].pc = "gather"
                   /\ AllSettled(inv[t].results)
                   /\ inv'[t].pc = "done"
       /\ feedbacks' # feedbacks =>
             \E t \in DOMAIN inv :
                /\ inv[t].pc = "gather"
                /\ AllSettled(inv[t].results)
                /\ inv'[t].outcome = "updated"]_vars

\* one invocation whose last-listed analysis has settled while its first is
\* still in flight, and another at the barrier: all four settled, some
\* returned and some raised, the update not yet issued
C6_Witness ==
    /\ inv["task1"].pc = "gather"
    /\ inv["task1"].results["category"] # Pending
    /\ inv["task1"].results["summary"] = Pending
    /\ inv["task2"].pc = "gather"
    /\ AllSettled(inv["task2"].results)
    /\ inv["task2"].results["summary"] = Raised
    /\ inv["task2"].results["category"] # Raised
    /\ Unenriched(feedbacks[inv["task2"].feedback_id])

C8_FailedWriteLeavesDocument ==
    [][\A t \in DOMAIN inv :
          UpdateFails(t) =>
             /\ feedbacks' = feedbacks
             /\ LET id == inv[t].feedback_id IN
                (id \in DOMAIN feedbacks /\ Unenriched(feedbacks[id])) =>
                   /\ Unenriched(feedbacks'[id])
                   /\ id \in Unprocessed(feedbacks', feedbacks[id].company_id)]_vars

\* an invocation whose update_one failed, its review still unprocessed
C8_Witness ==
    \E t \in DOMAIN inv :
       /\ inv[t].outcome = "store_error"
       /\ inv[t].doc # None
       /\ Unenriched(feedbacks[inv[t].feedback_id])
       /\ inv[t].feedback_id \in Unprocessed(feedbacks, "acme")

-----------------------------------------------------------------------------
(* Sentiment taxonomy *)

RECURSIVE DropTrailingPeriods(_)
DropTrailingPeriods(s) ==
    IF s # <<>> /\ s[Len(s)] = "."
    THEN DropTrailingPeriods(SubSeq(s, 1, Len(s) - 1))
    ELSE s

\* the label a provider reply stands for: the one of Positive, Negative,
\* Neutral it equals once trimmed, freed of trailing periods and compared
\* without regard to case; Neutral when it equals none
SentimentLabelOf(reply) ==
    LET lower(s) == [i \in 1..Len(s) |-> ToLower(s[i])]
        word == lower(DropTrailingPeriods(Strip(reply)))
        labels == { l \in {Positive, Negative, Neutral} : lower(l) = word }
    IN IF labels = {} THEN Neutral ELSE CHOOSE l \in labels : TRUE

\* C12: the sentiment a review carries is always one of Positive, Negative,
\* Neutral, Unknown (or still null); an enrich_feedback run that has written
\* persisted the label its provider reply stands for (Neutral for a reply
\* outside the taxonomy) when the sentiment call returned, and Unknown exactly
\* when the sentiment call failed.
C12_SentimentInTaxonomy ==
    /\ \A id \in DOMAIN feedbacks :
          feedbacks[id].sentiment \in
             {None, Some(Positive), Some(Negative), Some(Neutral), Some(Unknown)}
    /\ \A t \in DOMAIN inv :
          inv[t].pc = "done" /\ inv[t].outcome = "updated" =>
             LET d == feedbacks[inv[t].feedback_id]
                 o == inv[t].reply
             IN /\ o # Pending
                /\ (d.sentiment = Some(Unknown)) <=> (o = Raised)
                /\ o # Raised => d.sentiment = Some(SentimentLabelOf(o[2]))

\* a run persisted Positive for the reply "POSITIVE."
C12_Witness ==
    \E t \in DOMAIN inv :
       /\ inv[t].pc = "done"
       /\ inv[t].outcome = "updated"
       /\ inv[t].reply = Returned(<<"P", "O", "S", "I", "T", "I", "V", "E", ".">>)
       /\ feedbacks[inv[t].feedback_id].sentiment = Some(Positive)

-----------------------------------------------------------------------------
(* Submission claims *)

\* C13: a submission whose inline reply generation failed raises
\* LLMServiceError to the caller, inserts no review document and schedules no
\* enrichment task.
C13_ReplyFailureSavesNothing ==
    [][\A c \in Companies, d \in ReviewSubmits, ok \in BOOLEAN :
          SubmitReview(c, d, Raised, ok) =>
             /\ response'.op = "submit_review"
             /\ response'.raised = "LLMServiceError"
             /\ feedbacks' = feedbacks
             /\ scheduled' = scheduled]_vars

\* a submission has failed on its inline reply after an earlier one succeeded:
\* the store and the schedule still hold the earlier review only
C13_Witness ==
    /\ response.op = "submit_review"
    /\ response.status = 503
    /\ response.raised = "LLMServiceError"
    /\ Len(feedbacks) = 1
    /\ scheduled = SetToBag({EnrichFeedbackTask(1)})

\* C14: a successful submission answers with the id, the inline reply and the
\* creation timestamp of the document it has just stored, runs no enrichment
\* step and adds exactly one enrich_feedback task for that id; a task is only
\* ever queued for a stored review, so the invocation it starts loads the
\* document.
C14_ScheduledOnceAfterPersist ==
    /\ [](\A id \in 1..MaxReviews :
            BagIn(EnrichFeedbackTask(id), scheduled) =>
               /\ id \in DOMAIN feedbacks
               /\ CopiesIn(EnrichFeedbackTask(id), scheduled) = 1)
    /\ [](\A t \in Workers :
            /\ inv[t].pc = "find_one" => inv[t].feedback_id \in DOMAIN feedbacks
            /\ inv[t].pc \in {"gather", "done"}
                  /\ inv[t].outcome # "store_error" => inv[t].doc # None)
    /\ [][\A c \in Companies, d \in ReviewSubmits,
             r \in call_llm(UserReplyContents) \ {Raised} :
             SubmitReview(c, d, r, TRUE) =>
                LET id == response'.id IN
                /\ response'.status = 201
                /\ id \notin DOMAIN feedbacks
                /\ id \in DOMAIN feedbacks'
                /\ feedbacks'[id].ai_response = Some(response'.ai_response)
                /\ feedbacks'[id].created_at = response'.created_at
                /\ Unenriched(feedbacks'[id])
                /\ scheduled' = scheduled (+) SetToBag({EnrichFeedbackTask(id)})
                /\ CopiesIn(EnrichFeedbackTask(id), scheduled') = 1
                /\ inv' = inv]_vars

\* the task of the review just submitted has started and loaded its document
C14_Witness ==
    /\ response.op = "submit_review"
    /\ response.status = 201
    /\ \E t \in Workers :
          /\ inv[t].feedback_id = response.id
          /\ inv[t].pc = "gather"
          /\ inv[t].doc = Some(feedbacks[response.id])
    /\ ~BagIn(EnrichFeedbackTask(response.id), scheduled)

-----------------------------------------------------------------------------
(* Batch scheduler claims *)

\* the reviews of company_id that are unprocessed in coll
PendingOf(coll, company_id) ==
    { id \in DOMAIN coll :
        coll[id].company_id = company_id /\ ~coll[id].processed }

\* the enrich_feedback calls made for the batch so far, by slot
Invoked == { k \in 1..MaxReviews : inv[BatchSlot(k)].pc # "idle" }

\* C15: an enrich_unprocessed invocation that finds n unprocessed reviews of
\* its tenant selects min(n, batch_size) of them, all different, and when it
\* returns it has called enrich_feedback exactly once for each selected review
\* and for no other.
C15_AttemptsMinOfPendingAndBatchSize ==
    /\ [][batch.pc = "idle" /\ batch'.pc # "idle" =>
            LET pending == PendingOf(feedbacks, batch'.company_id)
                docs == batch'.docs
                n == Cardinality(pending)
            IN /\ Len(docs) = IF n < batch'.batch_size THEN n
                                                       ELSE batch'.batch_size
               /\ \A k \in 1..Len(docs) : docs[k] \in pending
               /\ \A j, k \in 1..Len(docs) : j # k => docs[j] # docs[k]]_vars
    /\ [](/\ \A k \in 1..Len(batch.attempted) :
                batch.attempted[k] = batch.docs[k]
          /\ Len(batch.attempted) <= Len(batch.docs)
          /\ Invoked = 1..Len(batch.attempted)
          /\ \A k \in Invoked :
                inv[BatchSlot(k)].feedback_id = batch.attempted[k]
          /\ batch.pc = "done" => batch.attempted = batch.docs)
    /\ [][batch.pc # "idle" /\ batch'.pc # "idle" =>
            batch'.docs = batch.docs]_vars

\* a pass with batch size 1 over two pending reviews has returned: one review
\* attempted, the other untouched
C15_Witness ==
    /\ batch.pc = "done"
    /\ batch.batch_size = 1
    /\ Cardinality(batch.matched) = 2
    /\ Len(batch.attempted) = 1
    /\ \E id \in batch.matched :
          id # batch.attempted[1] /\ Unenriched(feedbacks[id])

\* C16: the reviews a pass selects are the batch_size oldest pending ones of
\* the tenant, and it attempts them oldest-first by creation time.
C16_OldestFirst ==
    batch.pc # "idle" =>
       /\ \A j, k \in 1..Len(batch.docs) :
             j < k => feedbacks[batch.docs[j]].created_at
                         <= feedbacks[batch.docs[k]].created_at
       /\ \A id \in batch.matched :
             (\A k \in 1..Len(batch.docs) : batch.docs[k] # id) =>
                \A k \in 1..Len(batch.docs) :
                   feedbacks[batch.docs[k]].created_at
                      <= feedbacks[id].created_at

\* the calls of the batch that have started and not yet returned
InFlight == { k \in Invoked : inv[BatchSlot(k)].pc # "done" }

\* C17: within one enrich_unprocessed invocation at most one enrich_feedback
\* call is in flight; the call for document k+1 starts only after the call for
\* document k has returned and a sleep of 0.5 time units has followed it.
C17_OneDocumentAtATime ==
    /\ Cardinality(InFlight) <= 1
    /\ \A k \in Invoked :
          /\ \A j \in 1..(k - 1) : inv[BatchSlot(j)].pc = "done"
          /\ Len(batch.slept) >= k - 1
    /\ \A j \in 1..Len(batch.slept) :
          /\ batch.slept[j] = PacingDelay
          /\ inv[BatchSlot(j)].pc = "done"
    /\ batch.pc = "sleep" =>
          /\ Len(batch.slept) = batch.i
          /\ Invoked = 1..batch.i

\* the second document of a batch is being analysed, after the first call
\* returned and one sleep
C17_Witness ==
    /\ batch.pc = "await"
    /\ batch.i = 2
    /\ inv[BatchSlot(1)].pc = "done"
    /\ inv[BatchSlot(2)].pc = "gather"
    /\ batch.slept = <<PacingDelay>>

\* C18: an enrich_unprocessed invocation that was given no batch size works
\* with a batch size of 20: it selects up to 20 of the pending reviews.
C18_DefaultBatchSizeIs20 ==
    batch.pc # "idle" /\ ~batch.explicit =>
       /\ batch.batch_size = 20
       /\ Len(batch.docs) = IF Cardinality(batch.matched) < 20
                            THEN Cardinality(batch.matched) ELSE 20

\* C19: when an enrich_unprocessed invocation has returned and none of its
\* enrich_feedback calls met a store failure, no review of its tenant is left
\* with processed = false, however many were pending.
C19_NothingLeftPending ==
    (/\ batch.pc = "done"
     /\ \A k \in Invoked : inv[BatchSlot(k)].outcome # "store_error")
       => PendingOf(feedbacks, batch.company_id) = {}

-----------------------------------------------------------------------------
(* Trigger claims *)

\* the step starts no batch pass and no enrichment, and answers as op
AnswersWithoutEnriching(op) ==
    /\ response'.op = op
    /\ batch' = batch
    /\ inv' = inv

QueuesOneBatch(company_id) ==
    scheduled' = scheduled (+)
                    SetToBag({EnrichUnprocessedTask(company_id, RouterBatchSize)})

\* C20: process_pending, and an import that inserted at least one review,
\* answer in a step that only queues one enrich_unprocessed task, no step of
\* the batch being taken; an import that inserted nothing queues nothing; and a
\* batch pass only ever starts by taking a queued task, leaving the response
\* as it was sent.
C20_BatchQueuedNotAwaited ==
    [][/\ \A c \in TriggerCompanies :
            ProcessPending(c) =>
               AnswersWithoutEnriching("process_pending") /\ QueuesOneBatch(c)
       /\ \A c \in TriggerCompanies, rows \in TriggerCsvFiles, ok \in BOOLEAN :
            ImportCsv(c, rows, ok) =>
               /\ AnswersWithoutEnriching("import_csv")
               /\ response'.queued = Len(feedbacks') - Len(feedbacks)
               /\ IF Len(feedbacks') > Len(feedbacks)
                  THEN QueuesOneBatch(c) ELSE scheduled' = scheduled
       /\ \A c \in TriggerCompanies, ps \in TriggerPdfTexts, ok \in BOOLEAN :
            ImportPdf(c, ps, ok) =>
               /\ AnswersWithoutEnriching("import_pdf")
               /\ response'.queued = Len(feedbacks') - Len(feedbacks)
               /\ IF Len(feedbacks') > Len(feedbacks)
                  THEN QueuesOneBatch(c) ELSE scheduled' = scheduled
       /\ batch.pc = "idle" /\ batch'.pc # "idle" =>
            LET task == EnrichUnprocessedTask(batch'.company_id,
                                              batch'.batch_size) IN
            /\ BagIn(task, scheduled)
            /\ scheduled' = scheduled (-) SetToBag({task})
            /\ response' = response
            /\ inv' = inv]_vars

\* the pass queued by an import that inserted one review is enriching it,
\* after the import was answered
C20_Witness ==
    /\ response.op = "import_csv"
    /\ response.queued = 1
    /\ batch.pc = "await"
    /\ inv[BatchSlot(1)].pc = "gather"
    /\ scheduled = EmptyBag

-----------------------------------------------------------------------------
(* Insight claims *)

\* the request in slot r is over
Over(r) == gen[r].pc = "done"

\* generate_insights returned the error insight to the request in slot r
ReturnedErrorInsight(r) ==
    /\ gen[r].raised \notin {"UnboundLocalError", "AttributeError"}
    /\ gen[r].insight_doc # None
    /\ gen[r].insight_doc[1].top_issues = PyList(<<PyStr(UnableToGenerate)>>)
    /\ gen[r].insight_doc[1].priority_actions = PyList(<<PyStr(RetryLater)>>)

\* C21: a request for a tenant none of whose reviews is processed is answered
\* with the empty-state insight (empty lists, the "No processed reviews"
\* summary, review_count_analyzed = 0) without any _call_llm call, whatever
\* unprocessed reviews the tenant has.
C21_NoProcessedReviewsEmptyInsight ==
    \A r \in DOMAIN gen :
       (/\ gen[r].pc # "idle"
        /\ \A id \in DOMAIN feedbacks :
              feedbacks[id].company_id = gen[r].company_id =>
                 ~feedbacks[id].processed) =>
          /\ gen[r].llm_calls = 0
          /\ gen[r].pc \in {"find_one", "find", "return", "done"}
          /\ Over(r) =>
                /\ gen[r].raised = ""
                /\ gen[r].result # None
                /\ gen[r].result[1] =
                      [company_id |-> gen[r].company_id,
                       top_issues |-> PyList(<<>>),
                       top_praises |-> PyList(<<>>),
                       product_breakdown |-> PyDict(NoItems),
                       priority_actions |-> PyList(<<>>),
                       overall_summary |-> PyStr(NoProcessedReviews),
                       generated_at |-> gen[r].result[1].generated_at,
                       review_count_analyzed |-> 0]

C21_Witness ==
    \E r \in DOMAIN gen :
       /\ Over(r)
       /\ ProcessedOf(feedbacks, gen[r].company_id) = {}
       /\ Cardinality(Unprocessed(feedbacks, gen[r].company_id)) = MaxReviews
       /\ gen[r].result # None
       /\ gen[r].result[1].review_count_analyzed = 0
       /\ gen[r].llm_calls = 0

\* C22: when the tenant has a processed review and the _call_llm of
\* generate_insights raises LLMServiceError, generate_insights does not raise
\* and returns the error insight.
C22_ProviderFailureGivesErrorInsight ==
    \A r \in DOMAIN gen :
       (Over(r) /\ gen[r].reply = Raised) => ReturnedErrorInsight(r)

\* the reply is not the structured output asked for: it does not parse, or
\* not to an object, or to an object whose fields are not of the kinds the
\* prompt asks for
Malformed(content) ==
    LET loaded == json_loads(StripCodeFences(content)) IN
    \/ ~loaded.ok
    \/ loaded.v.t # "dict"
    \/ ~ValidInsightResponse(InsightDoc("", loaded.v, 0, <<>>))

\* C23: when the _call_llm of generate_insights returns a malformed reply,
\* generate_insights does not raise and returns the error insight.
C23_MalformedReplyGivesErrorInsight ==
    \A r \in DOMAIN gen :
       (Over(r) /\ gen[r].reply[1] = "ok" /\ Malformed(gen[r].reply[2])) =>
          ReturnedErrorInsight(r)

\* the request in slot r has had its query for recent reviews answered
Queried(r) == gen[r].pc \in {"call_llm", "update_one", "upsert", "return", "done"}

\* C27: the reviews generate_insights analyses are the min(limit, p) most
\* recently created processed reviews of the tenant, newest first, p being
\* the number of the tenant's processed reviews; review_count_analyzed is
\* their number.
C27_AnalysesNewestProcessed ==
    \A r \in DOMAIN gen :
       Queried(r) =>
          LET reviews == gen[r].reviews
              p == ProcessedOf(feedbacks, gen[r].company_id)
              analysed == { reviews[k] : k \in 1..Len(reviews) } IN
          /\ Len(reviews) = Min2(gen[r].limit, Cardinality(p))
          /\ Cardinality(analysed) = Len(reviews)
          /\ \A id \in analysed :
                /\ id \in DOMAIN feedbacks
                /\ feedbacks[id].company_id = gen[r].company_id
                /\ feedbacks[id].processed
          /\ \A j, k \in 1..Len(reviews) :
                j < k => feedbacks[reviews[j]].created_at
                            > feedbacks[reviews[k]].created_at
          /\ \A id \in p \ analysed, other \in analysed :
                feedbacks[id].created_at < feedbacks[other].created_at
          /\ gen[r].insight_doc # None =>
                gen[r].insight_doc[1].review_count_analyzed = Len(reviews)

C27_Witness ==
    \E r \in DOMAIN gen :
       /\ Over(r)
       /\ gen[r].limit < Cardinality(ProcessedOf(feedbacks, gen[r].company_id))
       /\ gen[r].result # None
       /\ gen[r].result[1].review_count_analyzed = gen[r].limit
       /\ feedbacks[gen[r].reviews[1]].created_at = Len(feedbacks)

\* C24: db.insights holds at most one record per tenant, whatever insight
\* requests were made and however they interleaved.
C24_OneInsightPerTenant ==
    \A c \in Companies : Cardinality(InsightsOf(insights, c)) <= 1

\* the step by which find_one answers the non-refresh request in slot r
CacheAnswers(r) == gen[r].pc = "find_one" /\ gen'[r] # gen[r]

\* C25: a non-refresh request of a tenant that has a cached record is answered
\* with that record as stored, without any _call_llm call and without any
\* change to the store, whatever reviews are processed by now; with no
\* record, get_cached_insights returns nothing and the insight is generated.
C25_CachedRecordServedVerbatim ==
    [][\A r \in DOMAIN gen :
          CacheAnswers(r) =>
             IF InsightsOf(insights, gen[r].company_id) = {}
             THEN /\ gen'[r].pc = "find"
                  /\ gen'[r].cached = NoSuchId
                  /\ gen'[r].result = None
             ELSE /\ gen'[r].pc = "done"
                  /\ gen'[r].cached \in InsightsOf(insights, gen[r].company_id)
                  /\ gen'[r].status = 200
                  /\ gen'[r].result = Some(insights[gen'[r].cached])
                  /\ gen'[r].llm_calls = 0
                  /\ UNCHANGED <<insights, feedbacks>>]_vars

\* the step by which the refresh request in slot r returns an insight
RefreshReturns(r) ==
    /\ gen[r].op = "get_insights" /\ gen[r].refresh
    /\ gen[r].pc = "return" /\ gen'[r].pc = "done"
    /\ gen'[r].result # None

\* C26: a request with refresh = true never serves the cached record, and
\* when it returns an insight, a cached record of the tenant equals that
\* insight.
C26_RefreshOverwrites ==
    [][\A r \in DOMAIN gen :
          /\ (gen'[r].op = "get_insights" /\ gen'[r].refresh) =>
                gen'[r].cached = NoSuchId
          /\ RefreshReturns(r) =>
                \E id \in InsightsOf(insights', gen[r].company_id) :
                   insights'[id] = gen'[r].result[1]]_vars

\* what holds of a refresh request in every state: the cache was not read, and
\* what it returns is the insight it computed, written if it analysed reviews
RefreshRecomputes(r) ==
    (gen[r].op = "get_insights" /\ gen[r].refresh) =>
       /\ gen[r].pc # "find_one"
       /\ gen[r].cached = NoSuchId
       /\ gen[r].result # None =>
             /\ gen[r].result = gen[r].insight_doc
             /\ IF gen[r].reviews = <<>>
                THEN /\ gen[r].written = NoSuchId
                     /\ gen[r].llm_calls = 0
                     /\ gen[r].result[1].review_count_analyzed = 0
                ELSE /\ gen[r].written \in DOMAIN insights
                     /\ gen[r].llm_calls = 1

\* the step by which the upsert of the request in slot r writes
Writes(r) == gen[r].pc = "upsert" /\ gen'[r].pc = "return"

\* C26 (amended): a refresh request never serves the cached record and always
\* recomputes.  If it analysed reviews and returns, it has written the insight
\* it returns into a cached record of its tenant, which equalled that insight
\* when written, the error insight included, and no other record was changed
\* by the write; with no processed review it returns the empty-state insight
\* and writes nothing.
C26_RefreshRecomputesAndWrites ==
    /\ [](\A r \in DOMAIN gen : RefreshRecomputes(r))
    /\ [][\A r \in DOMAIN gen :
             Writes(r) =>
                LET id == gen'[r].written IN
                /\ id \in DOMAIN insights'
                /\ insights'[id] = gen[r].insight_doc[1]
                /\ insights'[id].company_id = gen[r].company_id
                /\ \A other \in DOMAIN insights \ {id} :
                      insights'[other] = insights[other]
                /\ gen[r].matched # NoSuchId => id = gen[r].matched]_vars

C26_Witness ==
    \E r \in DOMAIN gen :
       /\ Over(r)
       /\ gen[r].op = "get_insights" /\ gen[r].refresh
       /\ gen[r].status = 200
       /\ gen[r].matched # NoSuchId
       /\ ReturnedErrorInsight(r)
       /\ insights[gen[r].written] = gen[r].result[1]

-----------------------------------------------------------------------------
(* Concurrency, liveness and tenant isolation claims *)

\* the step by which the update_one of the invocation in slot t writes a
\* review that a racing invocation has already written
Overwrites(t) ==
    /\ GatherReturned(inv[t])
    /\ inv'[t].outcome = "updated"
    /\ inv[t].feedback_id \in DOMAIN feedbacks
    /\ feedbacks[inv[t].feedback_id].processed

\* C28: when two enrich_feedback invocations race on a review and both write,
\* the later write replaces ai_summary, ai_actions, sentiment, category and
\* processed_at together by the values of the later writer, processed stays
\* true, and nothing else of the review changes: no state mixes the fields of
\* the two writers.
C28_LastWriterWins ==
    [][\A t \in DOMAIN inv :
          Overwrites(t) =>
             LET id == inv[t].feedback_id
                 value(a) == IF inv[t].results[a][1] = "ok"
                             THEN inv[t].results[a][2] ELSE Fallback(a) IN
             feedbacks' =
                [feedbacks EXCEPT
                   ![id] = [@ EXCEPT !.ai_summary = Some(value("summary")),
                                     !.ai_actions = Some(value("actions")),
                                     !.sentiment = Some(value("sentiment")),
                                     !.category = Some(value("category")),
                                     !.processed = TRUE,
                                     !.processed_at = Some(now')]]]_vars

C28_Witness ==
    /\ \A t \in EnrichTasks : inv[t].outcome = "updated" /\ inv[t].feedback_id = 1
    /\ feedbacks[1].processed
    /\ feedbacks[1].processed_at = Some(now)
    /\ now = Len(feedbacks) + 2
    /\ feedbacks[1].sentiment = Some(Unknown)
    /\ feedbacks[1].category = Some(NormaliseCategory(
                                  <<"\"", "D", "e", "l", "i", "v", "e", "r", "y", "\"">>))

\* the review with this id was accepted by submit_review
Accepted(id) == id \in DOMAIN feedbacks /\ feedbacks[id].source = "web"

\* the review with this id is stored as processed
Enriched(id) == id \in DOMAIN feedbacks /\ feedbacks[id].processed

\* C29: every review accepted by submit_review eventually has processed =
\* true, when the event loop is fair to background tasks, the store answers
\* the reads and writes of enrich_feedback and every _call_llm settles, even
\* if all four analyses fail.
C29_EventuallyEnriched ==
    \A id \in 1..MaxReviews : Accepted(id) ~> Enriched(id)

C29_Witness ==
    \E id \in DOMAIN feedbacks :
       /\ Accepted(id)
       /\ feedbacks[id].processed
       /\ feedbacks[id].ai_summary = Some(ErrorGeneratingSummary)
       /\ feedbacks[id].ai_actions = Some(ErrorGeneratingActions)
       /\ feedbacks[id].sentiment = Some(Unknown)
       /\ feedbacks[id].category = Some(General)
       /\ scheduled = EmptyBag

\* the store as it would be if company_id were its only tenant
OwnedBy(coll, company_id) ==
    [id \in { i \in DOMAIN coll : coll[i].company_id = company_id } |-> coll[id]]

\* the page returned to a tenant is a page of the store of its reviews alone
ListsOwn(r) ==
    LET company_id == gen'[r].company_id
        page == gen'[r].result[1] IN
    /\ gen[r].pc = "idle"
    /\ gen'[r].op = "get_all_feedback"
    /\ gen'[r].status = 200
    =>
       /\ page \in get_all_feedback(OwnedBy(feedbacks, company_id), company_id,
                                    gen'[r].limit, gen'[r].skip,
                                    gen'[r].filters)
       /\ \A k \in DOMAIN page : feedbacks[page[k].id].company_id = company_id

\* the analytics returned to a tenant count its reviews alone
CountsOwn(r) ==
    LET company_id == gen'[r].company_id IN
    /\ gen[r].pc = "idle"
    /\ gen'[r].op = "get_analytics"
    /\ gen'[r].status = 200
    =>
       gen'[r].result[1] =
          get_analytics(OwnedBy(feedbacks, company_id), company_id)

\* the reviews generate_insights analyses are the newest processed reviews of
\* the store of the tenant's reviews alone
AnalysesOwn(r) ==
    LET company_id == gen[r].company_id
        own == OwnedBy(feedbacks, company_id) IN
    gen[r].pc = "find" /\ gen'[r].pc # "find" =>
       /\ gen'[r].reviews \in
             SortLimit(own, { id \in DOMAIN own : own[id].processed },
                       gen[r].limit)
       /\ \A k \in DOMAIN gen'[r].reviews :
             feedbacks[gen'[r].reviews[k]].company_id = company_id

\* the documents enrich_unprocessed takes are pending reviews of the store of
\* the tenant's reviews alone
EnrichesOwn ==
    LET company_id == batch'.company_id
        own == OwnedBy(feedbacks, company_id) IN
    batch.pc = "idle" /\ batch'.pc # "idle" =>
       /\ batch'.docs \in
             CursorToList({ id \in DOMAIN own : own[id].processed = FALSE },
                          batch'.batch_size)
       /\ \A k \in DOMAIN batch'.docs :
             feedbacks[batch'.docs[k]].company_id = company_id

\* a step changes no review but one of the tenant whose batch is running
ModifiesOwn ==
    /\ DOMAIN feedbacks' = DOMAIN feedbacks
    /\ \A id \in DOMAIN feedbacks :
          feedbacks'[id] # feedbacks[id] =>
             /\ batch.pc # "idle"
             /\ feedbacks[id].company_id = batch.company_id
             /\ feedbacks'[id].company_id = batch.company_id

\* C30: an operation invoked for a tenant (get_all_feedback, get_analytics,
\* enrich_unprocessed, generate_insights) returns, counts, analyses and
\* modifies only reviews of that tenant, and its result is the one it has on
\* the store of that tenant's reviews alone, whatever the other tenant owns
C30_TenantIsolation ==
    [][/\ \A r \in DOMAIN gen : ListsOwn(r) /\ CountsOwn(r) /\ AnalysesOwn(r)
       /\ EnrichesOwn
       /\ ModifiesOwn]_vars

\* acme's operations have acted while globex owned a pending review that
\* their queries would match without the company: the batch enriched acme's
\* review and left globex's pending, and the listing that followed returned
\* acme's review alone
C30_Witness ==
    /\ Len(feedbacks) = 2
    /\ feedbacks[1].company_id = "acme"
    /\ feedbacks[2].company_id = "globex"
    /\ batch.pc = "done"
    /\ batch.company_id = "acme"
    /\ batch.docs = <<1>>
    /\ feedbacks[1].processed
    /\ feedbacks[2].processed = FALSE
    /\ \E r \in DOMAIN gen :
          /\ gen[r].op = "get_all_feedback"
          /\ gen[r].company_id = "acme"
          /\ gen[r].limit = DefaultPageSize
          /\ gen[r].status = 200
          /\ Len(gen[r].result[1]) = 1
          /\ gen[r].result[1][1].id = 1
          /\ gen[r].result[1][1].processed

-----------------------------------------------------------------------------
(* Enrichment state, frame and termination claims *)

\* a review with processed = true, the four enrichment fields and processed_at
FullyEnriched(d) ==
    /\ d.processed = TRUE
    /\ d.category # None
    /\ d.ai_summary # None
    /\ d.ai_actions # None
    /\ d.sentiment # None
    /\ d.processed_at # None

\* a step changes a stored review only as the one write of an invocation: the
\* invocation was gathering and is over after it, the review is its own, and
\* the six fields are set together
OneWholeWrite ==
    /\ \A id \in DOMAIN feedbacks :
          id \in DOMAIN feedbacks' /\ feedbacks'[id] # feedbacks[id] =>
             /\ FullyEnriched(feedbacks'[id])
             /\ \E t \in DOMAIN inv : Updates(t) /\ inv[t].feedback_id = id
    /\ \A t \in DOMAIN inv :
          inv[t].pc = "done" /\ inv'[t] # inv[t] =>
             /\ inv'[t] = InvIdle
             /\ feedbacks' = feedbacks

\* C31: an enrich_feedback invocation changes the store at most once, in the
\* step that ends it, setting the four enrichment fields, processed = true and
\* processed_at together; so every stored review is either fully unenriched or
\* fully enriched, in every reachable state.
C31_WhollyEnrichedOrNot ==
    /\ [](\A id \in DOMAIN feedbacks :
             Unenriched(feedbacks[id]) \/ FullyEnriched(feedbacks[id]))
    /\ [][OneWholeWrite]_vars

\* a submitted review enriched by the one write of its invocation, next to an
\* imported review no invocation has written
C31_Witness ==
    /\ Len(feedbacks) = 2
    /\ feedbacks[1].source = "web"
    /\ FullyEnriched(feedbacks[1])
    /\ feedbacks[1].processed_at = Some(now)
    /\ Unenriched(feedbacks[2])
    /\ \E t \in DOMAIN inv :
          /\ inv[t].pc = "done"
          /\ inv[t].outcome = "updated"
          /\ inv[t].feedback_id = 1

\* an enrichment field that is set stays set
StaysSet(before, after) == before # None => after # None

\* C32: whatever step is taken (a submission, an import, a step of the
\* background worker, of the batch pass or of an insight request), a review
\* that is processed stays stored and processed, and none of its enrichment
\* fields goes back to null.
C32_ProcessedIsMonotonic ==
    [][\A id \in DOMAIN feedbacks :
          feedbacks[id].processed =>
             /\ id \in DOMAIN feedbacks'
             /\ feedbacks'[id].processed
             /\ StaysSet(feedbacks[id].ai_summary, feedbacks'[id].ai_summary)
             /\ StaysSet(feedbacks[id].ai_actions, feedbacks'[id].ai_actions)
             /\ StaysSet(feedbacks[id].sentiment, feedbacks'[id].sentiment)
             /\ StaysSet(feedbacks[id].category, feedbacks'[id].category)]_vars

\* a submitted review was enriched; after that an import added a second
\* review, a batch pass enriched it, and an insight analysed the store: the
\* first review is still processed, with its four fields
C32_Witness ==
    /\ Len(feedbacks) = 2
    /\ feedbacks[1].source = "web"
    /\ FullyEnriched(feedbacks[1])
    /\ feedbacks[2].source # "web"
    /\ feedbacks[2].created_at > feedbacks[1].processed_at[1]
    /\ FullyEnriched(feedbacks[2])
    /\ batch.pc = "done"
    /\ batch.docs = <<2>>
    /\ \E r \in DOMAIN gen :
          /\ gen[r].pc = "done"
          /\ gen[r].op = "generate_insights"
          /\ Len(gen[r].reviews) = 2

\* the fields of a review that are fixed at creation
CreationFields(d) ==
    [review |-> d.review, rating |-> d.rating, product |-> d.product,
     source |-> d.source, created_at |-> d.created_at,
     ai_response |-> d.ai_response, company_id |-> d.company_id]

\* a step of an enrich_feedback invocation or of the enrich_unprocessed pass
EnrichmentStep == (\E t \in DOMAIN inv : inv'[t] # inv[t]) \/ batch' # batch

\* C33: a step of enrich_feedback or of enrich_unprocessed creates and deletes
\* no review, leaves the text, rating, product, source, created_at, inline
\* ai_response and company_id of every review as they were, and changes no
\* review but the one the invocation writing in that step was called for.
C33_EnrichmentFrame ==
    [][EnrichmentStep =>
          /\ DOMAIN feedbacks' = DOMAIN feedbacks
          /\ \A id \in DOMAIN feedbacks :
                /\ CreationFields(feedbacks'[id]) = CreationFields(feedbacks[id])
                /\ feedbacks'[id] # feedbacks[id] =>
                      \E t \in DOMAIN inv :
                         Updates(t) /\ inv[t].feedback_id = id]_vars

\* a submitted review enriched by the worker, its inline reply, rating and text
\* as stored at creation, and an imported review enriched by the batch pass,
\* its parsed rating and source as imported
C33_Witness ==
    /\ Len(feedbacks) = 2
    /\ feedbacks[1].source = "web"
    /\ feedbacks[1].processed
    /\ feedbacks[1].ai_response # None
    /\ feedbacks[1].rating = Some(4)
    /\ feedbacks[1].review = LongReview
    /\ feedbacks[1].created_at = 1
    /\ feedbacks[2].source = "import_csv"
    /\ feedbacks[2].processed
    /\ feedbacks[2].rating = Some(4)
    /\ feedbacks[2].ai_response = None
    /\ batch.pc = "done"
    /\ batch.attempted = <<2>>
    /\ inv["background"].outcome = "updated"
    /\ inv["background"].feedback_id = 1

\* the provider attempts the invocation i made so far, over the analyses as
RECURSIVE AttemptsOf(_, _)
AttemptsOf(i, as) ==
    IF as = {} THEN 0
    ELSE LET a == CHOOSE x \in as : TRUE
         IN Len(i.calls[a].outcomes) + AttemptsOf(i, as \ {a})

ProviderAttempts(i) == AttemptsOf(i, Analyses)

\* C34: every enrich_feedback invocation terminates when each provider
\* attempt returns or raises: it makes at most 4 x 3 provider attempts, no
\* analysis more than 3, and then ends with its single write, with a skip or
\* in its exception handler
C34_EnrichmentTerminates ==
    /\ \A t \in AttemptTasks : (inv[t].pc = "find_one") ~> (inv[t].pc = "done")
    /\ [](\A t \in AttemptTasks :
            /\ ProviderAttempts(inv[t]) <= Cardinality(Analyses) * MaxAttempts
            /\ \A a \in Analyses : Len(inv[t].calls[a].outcomes) <= MaxAttempts
            /\ inv[t].pc = "done" =>
                  inv[t].outcome \in {"updated", "skipped", "store_error"})

\* an invocation whose every attempt failed used all its attempts and then
\* wrote the fallbacks
C34_Witness ==
    \E t \in AttemptTasks :
        /\ inv[t].pc = "done"
        /\ inv[t].outcome = "updated"
        /\ ProviderAttempts(inv[t]) = Cardinality(Analyses) * MaxAttempts
        /\ feedbacks[inv[t].feedback_id].processed
        /\ feedbacks[inv[t].feedback_id].sentiment = Some(Fallback("sentiment"))

(* Category normalisation claim *)

QuoteChars == {"\"", "'"}

\* the reply with every surrounding whitespace and quote character removed,
\* cut to its first 50 characters
TrimmedCategory(reply) ==
    Prefix(StripChars(reply, Whitespace \cup QuoteChars), CategoryMaxLen)

\* the category call of the invocation i failed / what it returned
CategoryCall(i) == i.calls["category"]

\* C35: the category an enrich_feedback run persists is at most 50 characters
\* long: it is the provider reply without its surrounding whitespace and quote
\* characters, cut to 50 characters, or "General" when the category call failed
C35_CategoryIsTrimmedReply ==
    \A t \in DOMAIN inv :
        (inv[t].pc = "done" /\ inv[t].outcome = "updated") =>
            LET stored == feedbacks[inv[t].feedback_id].category IN
            /\ stored # None
            /\ Len(stored[1]) <= CategoryMaxLen
            /\ stored[1] = IF CategoryCall(inv[t]).pc = "raised" THEN General
                           ELSE TrimmedCategory(CategoryCall(inv[t]).result[1])

(* Rating claim *)

\* a stored rating is null or an integer in 1..5
RatingInRange(rating) == rating = None \/ rating[1] \in RatingMin..RatingMax

RatingsInRange == \A id \in DOMAIN feedbacks : RatingInRange(feedbacks[id].rating)

\* the rating cell is a number within 1..5
CellInRange(raw) ==
    raw.k = "num" /\ raw.tenths >= 10 * RatingMin /\ raw.tenths <= 10 * RatingMax

\* the rows of the file that carry a review of at least 10 characters
ReviewRows(rows) ==
    SelectSeq(rows, LAMBDA row : Len(Strip(row.review)) >= MinReviewLen)

\* the import of rows stored one review for each of its review rows, with a
\* null rating where the cell is unparseable or outside 1..5
RowsStored(rows) ==
    LET kept == ReviewRows(rows) IN
    /\ Len(feedbacks') = Len(feedbacks) + Len(kept)
    /\ \A i \in 1..Len(kept) :
          LET rating == feedbacks'[Len(feedbacks) + i].rating IN
          /\ RatingInRange(rating)
          /\ ~CellInRange(kept[i].rating) => rating = None

\* C36: every stored review has a rating that is null or an integer in 1..5,
\* whichever intake path it came through; a CSV row whose rating is unparseable
\* or outside 1..5 is stored with a null rating, neither rejected nor stored
\* as given
C36_RatingNullOrOneToFive ==
    /\ []RatingsInRange
    /\ [][\A c \in TriggerCompanies, rows \in RatingFiles :
             ImportCsvUpload(c, rows) => RowsStored(rows)]_vars

(* Batch failure isolation claim *)

\* the enrich_feedback call of the k-th document of the pass hit a store
\* failure
StoreFailedAt(k) == inv[BatchSlot(k)].outcome = "store_error"

\* C37: a failure while enriching one document of a batch does not abort the
\* batch: enrich_unprocessed never raises, goes on to the documents after a
\* failed one, and has attempted every document it selected when it returns
C37_FailureDoesNotAbortBatch ==
    /\ batch.pc # "raised"
    /\ batch.pc \in {"loop", "await", "sleep", "done"} =>
          /\ batch.attempted = SubSeq(batch.docs, 1, Len(batch.attempted))
          /\ \A k \in 1..Len(batch.attempted) :
                k < batch.i => ~inv[BatchSlot(k)].raised
    /\ batch.pc = "sleep" =>
          batch.i = Len(batch.attempted) /\ inv[BatchSlot(batch.i)].pc = "done"
    /\ batch.pc = "done" => batch.attempted = batch.docs

\* a pass over two documents returned: the enrichment of the first failed at
\* the store, the second was attempted all the same and written
C37_Witness ==
    /\ batch.pc = "done"
    /\ Len(batch.docs) = 2
    /\ batch.attempted = batch.docs
    /\ StoreFailedAt(1)
    /\ ~feedbacks[batch.docs[1]].processed
    /\ inv[BatchSlot(2)].outcome = "updated"
    /\ feedbacks[batch.docs[2]].processed

(* Rate limiter claims *)

\* this step is the limiter serving a request; response' tells its path, the
\* client it was counted for and how it was answered
Dispatched == response'.op = "dispatch" /\ now' = now

\* no client has more than requests_per_minute requests admitted within the
\* minute that ends now
AdmissionBound ==
    \A ip \in ClientIps : Len(limiter.admitted[ip]) <= RequestsPerMinute

\* the request is let through exactly when its path is exempt or its client
\* has fewer than requests_per_minute admissions within the last minute
AdmittedWhenBelowLimit ==
    response'.passed <=>
        \/ response'.path \in ExemptPaths
        \/ Len(limiter.admitted[response'.client_ip]) < RequestsPerMinute

\* the request leaves the records of the other clients as they are
OtherClientsUntouched ==
    \A ip \in ClientIps \ {response'.client_ip} :
        /\ limiter'.request_counts[ip] = limiter.request_counts[ip]
        /\ limiter'.admitted[ip] = limiter.admitted[ip]

\* C38: for each client IP at most requests_per_minute requests on non-exempt
\* paths are admitted within any trailing minute: a request is passed
\* downstream only if fewer than requests_per_minute requests of its IP were
\* admitted within the last minute, it is answered 429 otherwise, and it never
\* touches the allowance of another IP
C38_AtMostRequestsPerMinute ==
    /\ []AdmissionBound
    /\ [][Dispatched =>
             /\ AdmittedWhenBelowLimit
             /\ ~response'.passed =>
                   response'.status = HTTP_429_TOO_MANY_REQUESTS
             /\ OtherClientsUntouched]_vars

\* the limiter refused the request: dispatch raised HTTPException(429)
Refused(r) == ~r.passed /\ r.raised = HTTP_429_TOO_MANY_REQUESTS

\* what the request does to request_counts: nothing on an exempt path and
\* nothing when it is refused; when it is admitted, the entries of its client
\* that are a minute old or older are gone and its own time is appended
RecordsOnlyAdmitted ==
    LET ip == response'.client_ip
        path == response'.path
        before == limiter.request_counts
        after == limiter'.request_counts
    IN
    /\ path \in ExemptPaths =>
          response'.passed /\ after = before /\ limiter' = limiter
    /\ Refused(response') => after = before
    /\ (path \notin ExemptPaths /\ response'.passed) =>
          after = [before EXCEPT
                     ![ip] = Append(WithinLastMinute(before[ip], now), now)]

\* the oldest request on the client's record is more than a minute old
OldestExpired(ip) ==
    /\ limiter.request_counts[ip] # <<>>
    /\ now - Head(limiter.request_counts[ip]) > Minute

\* C39: the limiter records only admitted requests on non-exempt paths: a
\* refused request and a request to an exempt path leave request_counts
\* unchanged, a request to an exempt path is never refused, and a client is
\* admitted again once its oldest recorded request is more than a minute old,
\* however often it was refused meanwhile
C39_OnlyAdmittedRecorded ==
    [][Dispatched =>
          /\ RecordsOnlyAdmitted
          /\ ~response'.passed => Refused(response')
          /\ OldestExpired(response'.client_ip) => response'.passed]_vars

\* a client that used its allowance and was refused more than once has just
\* been admitted again, on a limited path, its oldest recorded request being
\* more than a minute old; the record holds the new request only
C39_Witness ==
    /\ response.op = "dispatch"
    /\ response.path = LimitedPath
    /\ response.passed
    /\ response.refusals = MaxRefusals
    /\ limiter.refused[response.client_ip] = 0
    /\ now - response.oldest > Minute
    /\ limiter.request_counts[response.client_ip] = <<now>>

=============================================================================
